---- MODULE Spec2Model ----
(***************************************************************************)
(* Cotton-lot batch processor (lib/pdf-processor.ts): the batch entry      *)
(* point processFilesWithData, the spreadsheet and PDF extractors, the     *)
(* statistics aggregator and the output assembler.                         *)
(*                                                                         *)
(* Conventions of the model                                                *)
(*  - A string is a sequence of one-character strings.                     *)
(*  - A JavaScript number is a fixed-point integer counted in thousandths  *)
(*    (4.12 is 4120); a division truncates to the thousandth.  IEEE-754    *)
(*    rounding is not modelled.                                            *)
(*  - Indices returned by findIndex/findColumnIndex keep the 0-based       *)
(*    JavaScript convention, -1 meaning "not found".                       *)
(*  - An optional value (number | null, RegExpMatchArray | null) is a      *)
(*    sequence of length 0 or 1.                                           *)
(***************************************************************************)
EXTENDS Integers, Sequences, FiniteSets, TLC

\* ------------------------------------------------------------------------
\* Characters and strings
\* ------------------------------------------------------------------------

Digits == {"0", "1", "2", "3", "4", "5", "6", "7", "8", "9"}

DigitValue(c) ==
    CASE c = "0" -> 0 [] c = "1" -> 1 [] c = "2" -> 2 [] c = "3" -> 3
      [] c = "4" -> 4 [] c = "5" -> 5 [] c = "6" -> 6 [] c = "7" -> 7
      [] c = "8" -> 8 [] c = "9" -> 9

DigitChar(d) == <<"0", "1", "2", "3", "4", "5", "6", "7", "8", "9">>[d + 1]

UpperChars == <<"A","B","C","D","E","F","G","H","I","J","K","L","M","N","O","P","Q","R","S","T","U","V","W","X","Y","Z","Á","É","Í","Ç","Ã","Ê","Ó","Ú">>

LowerChars == <<"a","b","c","d","e","f","g","h","i","j","k","l","m","n","o","p","q","r","s","t","u","v","w","x","y","z","á","é","í","ç","ã","ê","ó","ú">>

\* \w of a JavaScript regular expression without the u flag: ASCII only.
WordChars ==
    Digits \cup {"_"} \cup {UpperChars[i] : i \in 1..26} \cup {LowerChars[i] : i \in 1..26}

\* \s of a JavaScript regular expression, as far as the texts of the model go.
SpaceChars == {" ", "\n", "\t"}

toLowerChar(c) ==
    IF \E i \in DOMAIN UpperChars : UpperChars[i] = c
    THEN LowerChars[CHOOSE i \in DOMAIN UpperChars : UpperChars[i] = c]
    ELSE c

toUpperChar(c) ==
    IF \E i \in DOMAIN LowerChars : LowerChars[i] = c
    THEN UpperChars[CHOOSE i \in DOMAIN LowerChars : LowerChars[i] = c]
    ELSE c

\* String.prototype.toLowerCase
toLowerCase(s) == [i \in DOMAIN s |-> toLowerChar(s[i])]

\* String.prototype.includes
includes(s, sub) ==
    \E i \in 1..(Len(s) - Len(sub) + 1) : SubSeq(s, i, i + Len(sub) - 1) = sub

\* String.prototype.lastIndexOf for a single character, 0-based, -1 when absent.
lastIndexOf(s, c) ==
    IF \E i \in DOMAIN s : s[i] = c
    THEN (CHOOSE i \in DOMAIN s : s[i] = c /\ \A j \in DOMAIN s : s[j] = c => j <= i) - 1
    ELSE -1

\* s with the character at 1-based position k replaced by d
replaceAt(s, k, d) == SubSeq(s, 1, k - 1) \o d \o SubSeq(s, k + 1, Len(s))

\* String.prototype.replace(c, d) with a string pattern: the first occurrence only.
replaceFirst(s, c, d) ==
    IF \E i \in DOMAIN s : s[i] = c
    THEN replaceAt(s, CHOOSE i \in DOMAIN s : s[i] = c /\ \A j \in DOMAIN s : s[j] = c => i <= j, d)
    ELSE s

\* String.prototype.replace(/[class]/g, ''): every character of the class removed.
removeChars(s, class) == SelectSeq(s, LAMBDA c : c \notin class)

\* String.prototype.replace(/[^class]/g, ''): only the characters of the class kept.
keepChars(s, class) == SelectSeq(s, LAMBDA c : c \in class)

RECURSIVE trimStart(_)
trimStart(s) ==
    IF s # <<>> /\ Head(s) \in SpaceChars THEN trimStart(Tail(s)) ELSE s

RECURSIVE trimEnd(_)
trimEnd(s) ==
    IF s # <<>> /\ s[Len(s)] \in SpaceChars THEN trimEnd(SubSeq(s, 1, Len(s) - 1)) ELSE s

\* String.prototype.trim
trim(s) == trimEnd(trimStart(s))

\* String.prototype.replace(/\s+/g, ' ')
RECURSIVE collapseSpaces(_)
collapseSpaces(s) ==
    IF s = <<>> THEN <<>>
    ELSE IF Head(s) \in SpaceChars
         THEN <<" ">> \o collapseSpaces(trimStart(s))
         ELSE <<Head(s)>> \o collapseSpaces(Tail(s))

\* Array.prototype.findIndex: 0-based index of the first element satisfying P, or -1.
findIndex(xs, P(_)) ==
    IF \E i \in DOMAIN xs : P(xs[i])
    THEN (CHOOSE i \in DOMAIN xs : P(xs[i]) /\ \A j \in 1..(i - 1) : ~P(xs[j])) - 1
    ELSE -1

RECURSIVE SeqSum(_)
SeqSum(xs) == IF xs = <<>> THEN 0 ELSE Head(xs) + SeqSum(Tail(xs))

SeqMin(xs) == CHOOSE m \in {xs[i] : i \in DOMAIN xs} : \A i \in DOMAIN xs : m <= xs[i]

SeqMax(xs) == CHOOSE m \in {xs[i] : i \in DOMAIN xs} : \A i \in DOMAIN xs : xs[i] <= m

RECURSIVE Flatten(_)
Flatten(xss) == IF xss = <<>> THEN <<>> ELSE Head(xss) \o Flatten(Tail(xss))

\* ------------------------------------------------------------------------
\* Regular expressions.  A pattern is a sequence of items; an item is a
\* character class (possibly negated) with a greedy quantifier min..max
\* (max = -1: unbounded), possibly a capture group, or the anchor $.
\* Matching is the backtracking, leftmost, greedy matching of JavaScript.
\* ------------------------------------------------------------------------

Item(class, neg, min, max, cap) ==
    [class |-> class, neg |-> neg, min |-> min, max |-> max, cap |-> cap, eos |-> FALSE]

\* one character of the class
In(class) == Item(class, FALSE, 1, 1, FALSE)

\* class*  class+  class{n,}
Star(class) == Item(class, FALSE, 0, -1, FALSE)

Plus(class) == Item(class, FALSE, 1, -1, FALSE)

AtLeast(class, n) == Item(class, FALSE, n, -1, FALSE)

\* [^class] and [^class]* and [^class]+
NotIn(class) == Item(class, TRUE, 1, 1, FALSE)

NotStar(class) == Item(class, TRUE, 0, -1, FALSE)

NotPlus(class) == Item(class, TRUE, 1, -1, FALSE)

\* (item)
Cap(item) == [item EXCEPT !.cap = TRUE]

\* $
EndOfString == [Item({}, FALSE, 0, 0, FALSE) EXCEPT !.eos = TRUE]

\* a literal, case-sensitive and under the i flag
Lit(s) == [i \in DOMAIN s |-> In({s[i]})]

LitI(s) == [i \in DOMAIN s |-> In({toLowerChar(s[i]), toUpperChar(s[i])})]

ItemAccepts(it, c) == (c \in it.class) # it.neg

\* The first position from pos on that the item does not accept (Len(t) + 1
\* when it accepts every character up to the end).
runEnd(it, t, pos) ==
    CHOOSE i \in pos..(Len(t) + 1) :
        /\ i > Len(t) \/ ~ItemAccepts(it, t[i])
        /\ \A j \in pos..(i - 1) : ItemAccepts(it, t[j])

capRun(max, run) == IF max >= 0 /\ run > max THEN max ELSE run

\* The longest run of characters the item accepts from pos on, capped by its max.
RunLen(it, t, pos) == capRun(it.max, runEnd(it, t, pos) - pos)

\* Items k.. of p matched at position pos of t: <<>> when they do not match,
\* else <<[end, caps]>> with end the position after the match.  A quantified
\* item takes the longest run first (TryCount with n = the run) and gives
\* characters back one at a time.
RECURSIVE MatchFrom(_, _, _, _)
RECURSIVE TryCount(_, _, _, _, _)
MatchFrom(p, k, t, pos) ==
    IF k > Len(p) THEN <<[end |-> pos, caps |-> <<>>]>>
    ELSE IF p[k].eos
         THEN IF pos = Len(t) + 1 THEN MatchFrom(p, k + 1, t, pos) ELSE <<>>
         ELSE TryCount(p, k, t, pos, RunLen(p[k], t, pos))

\* Item k took n characters and r is the match of the items after it.
afterCount(p, k, t, pos, n, r) ==
    IF r # <<>>
    THEN <<[end  |-> r[1].end,
            caps |-> IF p[k].cap
                     THEN <<SubSeq(t, pos, pos + n - 1)>> \o r[1].caps
                     ELSE r[1].caps]>>
    ELSE TryCount(p, k, t, pos, n - 1)

TryCount(p, k, t, pos, n) ==
    IF n < p[k].min THEN <<>>
    ELSE afterCount(p, k, t, pos, n, MatchFrom(p, k + 1, t, pos + n))

\* The positions of t at which p matches.
MatchStarts(p, t) == {s \in 1..(Len(t) + 1) : MatchFrom(p, 1, t, s) # <<>>}

SetMin(xs) == CHOOSE m \in xs : \A x \in xs : m <= x

matchRecord(s, r) == [index |-> s, end |-> r.end, caps |-> r.caps]

\* The match of p at position s: [index, end, caps], index 1-based, end exclusive.
MatchAt(p, t, s) == matchRecord(s, MatchFrom(p, 1, t, s)[1])

firstMatch(p, t, starts) == IF starts = {} THEN <<>> ELSE <<MatchAt(p, t, SetMin(starts))>>

\* String.prototype.match without the g flag: the leftmost match or <<>>.
Match(t, p) == firstMatch(p, t, MatchStarts(p, t))

\* RegExp.prototype.test
Test(p, t) == \E s \in 1..(Len(t) + 1) : MatchFrom(p, 1, t, s) # <<>>

\* RegExp.prototype.test of a pattern anchored with ^
TestAtStart(p, t) == MatchFrom(p, 1, t, 1) # <<>>

\* String.prototype.match with the g flag / a loop of exec: every successive,
\* non-overlapping match, in order.
RECURSIVE MatchAllFrom(_, _, _, _)
matchAndRest(p, t, starts, m) ==
    <<m>> \o MatchAllFrom(p, t, starts, IF m.end > m.index THEN m.end ELSE m.end + 1)

matchesAmong(p, t, starts, later) ==
    IF later = {} THEN <<>> ELSE matchAndRest(p, t, starts, MatchAt(p, t, SetMin(later)))

MatchAllFrom(p, t, starts, from) == matchesAmong(p, t, starts, {s \in starts : s >= from})

MatchAll(t, p) == MatchAllFrom(p, t, MatchStarts(p, t), 1)

\* String.prototype.split(/\s+/)
RECURSIVE splitSpaces(_)
splitAt(s, k) == <<SubSeq(s, 1, k - 1)>> \o splitSpaces(trimStart(SubSeq(s, k, Len(s))))

splitSpaces(s) ==
    IF \E i \in DOMAIN s : s[i] \in SpaceChars
    THEN splitAt(s, CHOOSE i \in DOMAIN s :
                        s[i] \in SpaceChars /\ \A j \in 1..(i - 1) : s[j] \notin SpaceChars)
    ELSE <<s>>

\* ------------------------------------------------------------------------
\* Numbers
\* ------------------------------------------------------------------------

\* One unit: numbers are counted in thousandths.
Unit == 10 * 10 * 10

FromInt(n) == n * Unit

RECURSIVE DigitsValue(_)
DigitsValue(ds) ==
    IF ds = <<>> THEN 0 ELSE DigitsValue(SubSeq(ds, 1, Len(ds) - 1)) * 10 + DigitValue(ds[Len(ds)])

\* The fraction digits ds (after the point) in thousandths, further digits dropped.
FractionValue(ds) ==
    LET d(i) == IF i <= Len(ds) THEN DigitValue(ds[i]) ELSE 0
    IN  d(1) * 100 + d(2) * 10 + d(3)

\* Every number of a million or more is the one number Huge (the integers of
\* the model are 32 bits wide; no comparison of the source tells two such apart).
Huge == 2000000 * Unit

\* The digits of the fraction when position p of s holds the point, else 0.
fractionLen(s, p) ==
    IF p <= Len(s) /\ s[p] = "." THEN RunLen(Plus(Digits), s, p + 1) ELSE 0

\* digits[.digits] at position b of s, n1 integer and n2 fraction digits long.
unsignedValue(s, b, n1, n2) ==
    IF n1 > 6 THEN Huge
    ELSE DigitsValue(SubSeq(s, b, b + n1 - 1)) * Unit
         + FractionValue(SubSeq(s, b + n1 + 1, b + n1 + n2))

numericPrefix(s, b, n1, n2) ==
    IF n1 = 0 /\ n2 = 0 THEN <<>>
    ELSE <<IF s[1] = "-" THEN 0 - unsignedValue(s, b, n1, n2) ELSE unsignedValue(s, b, n1, n2)>>

integerPrefix(s, b, n1) == numericPrefix(s, b, n1, fractionLen(s, b + n1))

signedPrefix(s, b) == integerPrefix(s, b, RunLen(Plus(Digits), s, b))

trimmedPrefix(s) == signedPrefix(s, IF s # <<>> /\ s[1] \in {"-", "+"} THEN 2 ELSE 1)

\* parseFloat: the longest numeric prefix [+-]digits[.digits] after leading
\* white space; <<>> is NaN.  (No exponent occurs in the texts of the model.)
parseFloat(str) == trimmedPrefix(trimStart(str))

RECURSIVE NatToString(_)
NatToString(n) ==
    IF n < 10 THEN <<DigitChar(n)>> ELSE NatToString(n \div 10) \o <<DigitChar(n % 10)>>

\* Number.prototype.toString
numToString(v) ==
    LET a    == IF v < 0 THEN 0 - v ELSE v
        frac == a % Unit
        f3   == <<DigitChar(frac \div 100), DigitChar((frac \div 10) % 10), DigitChar(frac % 10)>>
        fs   == IF frac % 10 # 0 THEN f3
                ELSE IF frac % 100 # 0 THEN SubSeq(f3, 1, 2)
                ELSE SubSeq(f3, 1, 1)
    IN  (IF v < 0 THEN <<"-">> ELSE <<>>)
        \o NatToString(a \div Unit)
        \o (IF frac = 0 THEN <<>> ELSE <<".">> \o fs)

\* Number.prototype.toFixed(digits) for digits in 1..3, rounding half up.
toFixed(v, digits) ==
    LET a     == IF v < 0 THEN 0 - v ELSE v
        step  == IF digits = 1 THEN 100 ELSE IF digits = 2 THEN 10 ELSE 1
        q     == (a + (step \div 2)) \div step
        scale == Unit \div step
        fd    == NatToString(q % scale)
        pad   == [i \in 1..(digits - Len(fd)) |-> "0"]
    IN  (IF v < 0 /\ q # 0 THEN <<"-">> ELSE <<>>)
        \o NatToString(q \div scale) \o <<".">> \o pad \o fd

\* parseNumericValue (the source's number parser).  A cell or token is
\* [t |-> "null"], [t |-> "num", n |-> number] or [t |-> "str", s |-> string].
Null == [t |-> "null", n |-> 0, s |-> <<>>]

Num(n) == [t |-> "num", n |-> n, s |-> <<>>]

Str(s) == [t |-> "str", n |-> 0, s |-> s]

\* String(value) / value.toString()
toString(value) ==
    IF value.t = "num" THEN numToString(value.n)
    ELSE IF value.t = "str" THEN value.s
    ELSE <<"n","u","l","l">>

\* The separators of a trimmed string: with both a comma and a dot the later
\* one is the decimal separator; a lone comma is a decimal comma.
normalizeSeparatorsCommaDecimal(str, hasComma, hasDot) ==
    IF hasComma THEN replaceFirst(removeChars(str, {"."}), ",", <<".">>) ELSE str

normalizeSeparators(str, hasComma, hasDot) ==
    IF hasComma /\ hasDot
    THEN IF lastIndexOf(str, ",") > lastIndexOf(str, ".")
         THEN replaceFirst(removeChars(str, {"."}), ",", <<".">>)
         ELSE removeChars(str, {","})
    ELSE IF hasComma
         THEN replaceFirst(str, ",", <<".">>)
         ELSE str

parseTrimmed(str) ==
    parseFloat(keepChars(normalizeSeparators(str, \E i \in DOMAIN str : str[i] = ",",
                                             \E i \in DOMAIN str : str[i] = "."),
                         Digits \cup {".", "-"}))

\* `isNaN(num) ? 0 : num`
numberOrZero(num) == IF num = <<>> THEN 0 ELSE num[1]

parseNumericValue(value) ==
    IF value.t = "null" \/ (value.t = "str" /\ value.s = <<>>) THEN 0
    ELSE IF value.t = "num" THEN value.n
    ELSE numberOrZero(parseTrimmed(trim(value.s)))

\* ------------------------------------------------------------------------
\* IEEE-754 double precision
\* Samples and parsed values are decimals of at most three places and are
\* held in thousandths.  An average is the result of floating-point additions
\* and a division, so it is held as the double the source computes: its sign,
\* the exponent e of its leading bit and the 53 bits m of its significand, most
\* significant first (the value is m * 2^(e - 52)); m = <<>> is zero.
\* ------------------------------------------------------------------------

SignificandBits == 52 + 1

Zero == [neg |-> FALSE, e |-> 0, m |-> <<>>]

zeros(n) == [i \in 1..n |-> 0]

RECURSIVE TwoTo(_)
TwoTo(n) == IF n = 0 THEN 1 ELSE 2 * TwoTo(n - 1)

\* The binary digits of a natural number, most significant first; <<>> for 0.
RECURSIVE natBits(_)
natBits(k) == IF k = 0 THEN <<>> ELSE Append(natBits(k \div 2), k % 2)

RECURSIVE bitsValue(_)
bitsValue(bits) ==
    IF bits = <<>> THEN 0
    ELSE 2 * bitsValue(SubSeq(bits, 1, Len(bits) - 1)) + bits[Len(bits)]

\* bits plus one; a carry out of the first bit makes the result one bit longer.
increment(bits) ==
    IF \A k \in DOMAIN bits : bits[k] = 1 THEN <<1>> \o zeros(Len(bits))
    ELSE [k \in DOMAIN bits |->
             IF \A j \in (k + 1)..Len(bits) : bits[j] = 1 THEN 1 - bits[k] ELSE bits[k]]

normalized(neg, e, bits) ==
    IF Len(bits) > SignificandBits
    THEN [neg |-> neg, e |-> e + 1, m |-> SubSeq(bits, 1, SignificandBits)]
    ELSE [neg |-> neg, e |-> e, m |-> bits]

\* Round to nearest, ties to even: kept are the 53 leading bits, half is -1, 0
\* or 1 as what was dropped is below, at or above half a unit in the last place.
rounded(neg, e, kept, half) ==
    IF half = 1 \/ (half = 0 /\ kept[Len(kept)] = 1)
    THEN normalized(neg, e, increment(kept))
    ELSE [neg |-> neg, e |-> e, m |-> kept]

halfOfBits(rest) ==
    IF rest = <<>> \/ rest[1] = 0 THEN -1
    ELSE IF \E i \in 2..Len(rest) : rest[i] = 1 THEN 1 ELSE 0

halfOfRemainder(r, den) == IF 2 * r > den THEN 1 ELSE IF 2 * r = den THEN 0 ELSE -1

\* The next count bits of the binary expansion of r / den (0 <= r < den) and
\* the remainder they leave.
RECURSIVE fractionBits(_, _, _, _)
fractionBits(r, den, count, bits) ==
    IF count = 0 THEN [bits |-> bits, r |-> r]
    ELSE IF 2 * r >= den THEN fractionBits(2 * r - den, den, count - 1, Append(bits, 1))
    ELSE fractionBits(2 * r, den, count - 1, Append(bits, 0))

\* The zero bits before the first one bit of the binary expansion of r / den.
RECURSIVE leadingZeros(_, _)
leadingZeros(r, den) == IF 2 * r >= den THEN 0 ELSE 1 + leadingZeros(2 * r, den)

fromParts(neg, e, ib, fr) == rounded(neg, e, ib \o fr.bits, halfOfRemainder(fr.r, Unit))

fromInteger(neg, ib, r) ==
    fromParts(neg, Len(ib) - 1, ib, fractionBits(r, Unit, SignificandBits - Len(ib), <<>>))

fromFraction(neg, z, a) ==
    fromParts(neg, 0 - (z + 1), <<>>, fractionBits(a * TwoTo(z), Unit, SignificandBits, <<>>))

decimalToDouble(neg, a) ==
    IF a >= Unit THEN fromInteger(neg, natBits(a \div Unit), a % Unit)
    ELSE fromFraction(neg, leadingZeros(a, Unit), a)

\* The double nearest to a number of thousandths: the double a sample is.
toDouble(n) ==
    IF n = 0 THEN Zero
    ELSE IF n < 0 THEN decimalToDouble(TRUE, 0 - n) ELSE decimalToDouble(FALSE, n)

\* The carry into position k of x + y: a position after k generates a carry
\* that every position between propagates.
carryInto(x, y, k) ==
    \E j \in (k + 1)..Len(x) : x[j] + y[j] = 2 /\ \A i \in (k + 1)..(j - 1) : x[i] + y[i] = 1

\* x + y for bit sequences of the same length, the carry out in front.
addBits(x, y) ==
    (IF carryInto(x, y, 0) THEN <<1>> ELSE <<>>)
    \o [k \in DOMAIN x |-> (x[k] + y[k] + (IF carryInto(x, y, k) THEN 1 ELSE 0)) % 2]

roundedSum(e, bits) ==
    rounded(FALSE, e, SubSeq(bits, 1, SignificandBits),
            halfOfBits(SubSeq(bits, SignificandBits + 1, Len(bits))))

sumOfAligned(e, bits, width) == roundedSum(IF Len(bits) > width THEN e + 1 ELSE e, bits)

\* hi + lo for positive doubles with hi.e >= lo.e
addOrdered(hi, lo, shift) ==
    sumOfAligned(hi.e, addBits(hi.m \o zeros(shift), zeros(shift) \o lo.m),
                 SignificandBits + shift)

\* a + b for doubles that are positive or zero
addPositive(a, b) ==
    IF a.m = <<>> THEN b
    ELSE IF b.m = <<>> THEN a
    ELSE IF a.e >= b.e THEN addOrdered(a, b, a.e - b.e)
    ELSE addOrdered(b, a, b.e - a.e)

\* `values.reduce((a, b) => a + b, 0)`, every addition rounded
RECURSIVE sumFrom(_, _)
sumFrom(acc, values) ==
    IF values = <<>> THEN acc
    ELSE sumFrom(addPositive(acc, toDouble(Head(values))), Tail(values))

\* The first 53 significant bits of m / n by long division, the position of
\* the first of them and the remainder; t is twice the remainder plus bit k.
RECURSIVE quotientBits(_, _, _, _, _, _)
quotientStep(m, n, k, t, bits, first) ==
    IF t >= n
    THEN quotientBits(m, n, k + 1, t - n, Append(bits, 1), IF bits = <<>> THEN k ELSE first)
    ELSE quotientBits(m, n, k + 1, t, IF bits = <<>> THEN bits ELSE Append(bits, 0), first)

quotientBits(m, n, k, r, bits, first) ==
    IF Len(bits) = SignificandBits THEN [bits |-> bits, r |-> r, first |-> first]
    ELSE quotientStep(m, n, k, 2 * r + (IF k <= Len(m) THEN m[k] ELSE 0), bits, first)

quotientDouble(a, n, q) ==
    rounded(a.neg, a.e - (q.first - 1), q.bits, halfOfRemainder(q.r, n))

\* a / n for a count n >= 1
divideByCount(a, n) ==
    IF a.m = <<>> THEN a ELSE quotientDouble(a, n, quotientBits(a.m, n, 1, 0, <<>>, 0))

lexLess(x, y) == \E k \in DOMAIN x : x[k] < y[k] /\ \A j \in 1..(k - 1) : x[j] = y[j]

magnitudeLess(a, b) ==
    IF a.m = <<>> THEN b.m # <<>>
    ELSE IF b.m = <<>> THEN FALSE
    ELSE IF a.e # b.e THEN a.e < b.e
    ELSE lexLess(a.m, b.m)

\* a < b, a <= b, a > 0
Less(a, b) ==
    IF a.neg # b.neg THEN a.neg
    ELSE IF a.neg THEN magnitudeLess(b, a) ELSE magnitudeLess(a, b)

LessEq(a, b) == ~Less(b, a)

isPositive(a) == ~a.neg /\ a.m # <<>>

\* The thousandths nearest to a double below a million, for printing: the
\* integer bits and the first 20 bits of the fraction.
magnitudeThousandths(bits, intLen) ==
    bitsValue(SubSeq(bits, 1, intLen)) * Unit
    + (bitsValue(SubSeq(bits, intLen + 1, intLen + 20)) * Unit + TwoTo(19)) \div TwoTo(20)

unsignedThousandths(d) ==
    IF d.e > 20 THEN Huge
    ELSE IF d.e >= 0 THEN magnitudeThousandths(d.m, d.e + 1)
    ELSE magnitudeThousandths(zeros(0 - d.e - 1) \o d.m, 0)

toThousandths(d) ==
    IF d.m = <<>> THEN 0
    ELSE IF d.neg THEN 0 - unsignedThousandths(d) ELSE unsignedThousandths(d)

\* The numbers that are not finite, as values of their own above Huge.
Infinity == Huge + 1

NegInfinity == 0 - Infinity

NaN == Huge + 2

isNaN(v) == v = NaN

isFinite(v) == v \notin {NaN, Infinity, NegInfinity}

\* `v > 0`: false of NaN
greaterThanZero(v) == v # NaN /\ v > 0

\* min and max are samples; avg is `sum / validValues.length` in doubles.
statsOfValid(validValues) ==
    IF Len(validValues) = 0
    THEN [min |-> 0, avg |-> Zero, max |-> 0]
    ELSE [min |-> SeqMin(validValues),
          avg |-> divideByCount(sumFrom(Zero, validValues), Len(validValues)),
          max |-> SeqMax(validValues)]

\* calculateStats
calculateStatsOfPositive(values) == statsOfValid(SelectSeq(values, greaterThanZero))

calculateStats(values) ==
    statsOfValid(SelectSeq(values, LAMBDA v : greaterThanZero(v) /\ ~isNaN(v) /\ isFinite(v)))

isValueInMillimetersAboveTen(value) == value > FromInt(10)

\* isValueInMillimeters: value > 2
isValueInMillimeters(value) == value > FromInt(2)

\* normalizeUhmToInches: value / 25.4
normalizeUhmToInches(value) ==
    IF value <= 0 THEN 0
    ELSE IF isValueInMillimeters(value) THEN (value * 10) \div 254
    ELSE value

\* ------------------------------------------------------------------------
\* Field locator
\* ------------------------------------------------------------------------

\* COLUMN_ALIASES, the fields the extractors read.
COLUMN_ALIASES ==
    [mic |-> <<<<"m","i","c">>, <<"m","i","c","r","o","n">>, <<"m","i","c","r","o","n",".">>, <<"m","i","c","r","o","n","a","i","r","e">>, <<"m","i","c","r","o","n","a","r","e">>, <<"m","i","c","r","o","n","á","r","i","o">>>>,
     uhm |-> <<<<"u","h","m">>, <<"u","h","m","l">>, <<"u","h","l">>, <<"l","e","n">>, <<"l","e","n","g","t","h">>, <<"c","o","m","p","r","i","m","e","n","t","o">>, <<"c","o","m","p">>,
               <<"f","i","b","r","a">>, <<"f","b">>, <<"s","t","a","p","l","e">>, <<"s","t","a","p","l","e"," ","l","e","n","g","t","h">>>>,
     str |-> <<<<"s","t","r">>, <<"r","e","s">>, <<"r","e","s","i","s","t">>, <<"r","e","s","i","s","t",".">>, <<"s","t","r","e","n","g","t","h">>, <<"r","e","s","i","s","t","ê","n","c","i","a">>,
               <<"r","e","s","i","s","t","e","n","c","i","a">>, <<"t","e","n","a","c","i","d","a","d","e">>, <<"t","e","n","a","c","i","t","y">>, <<"g","f","/","t","e","x">>>>,
     sci |-> <<<<"s","c","i">>, <<"s","p","i","n","n","i","n","g"," ","c","o","n","s","i","s","t","e","n","c","y">>, <<"c","o","n","s","i","s","t","ê","n","c","i","a">>>>,
     weight |-> <<<<"p","e","s","o">>, <<"w","e","i","g","h","t">>, <<"l","í","q","u","i","d","o">>, <<"l","i","q","u","i","d","o">>, <<"n","e","t"," ","w","e","i","g","h","t">>, <<"p","e","s","o"," ","l","í","q","u","i","d","o">>,
                  <<"p","e","s","o"," ","l","i","q","u","i","d","o">>, <<"k","g">>, <<"k","i","l","o","s">>>>,
     bale |-> <<<<"f","a","r","d","o">>, <<"b","a","l","e">>, <<"c","ó","d","i","g","o"," ","g","s","1">>, <<"c","o","d","i","g","o"," ","g","s","1">>, <<"b","a","l","e"," ","i","d">>, <<"n","º"," ","f","a","r","d","o">>,
                <<"n","u","m","e","r","o"," ","f","a","r","d","o">>, <<"n"," ","f","a","r","d","o">>>>,
     lot |-> <<<<"l","o","t","e">>, <<"l","o","t">>, <<"b","l","o","c","o">>, <<"r","o","m","a","n","e","i","o">>, <<"b","a","t","c","h">>, <<"b","l","o","c","k">>, <<"l","o","t","e"," ","n","º">>,
               <<"l","o","t","e"," ","n","u","m","e","r","o">>, <<"l","o","t"," ","n","o">>, <<"l","o","t"," ","#">>, <<"l","o","t","e"," ","#">>, <<"n","°"," ","l","o","t","e">>, <<"n","º"," ","l","o","t","e">>,
               <<"l","o","t"," ","n","u","m","b","e","r">>, <<"b","a","t","c","h"," ","n","u","m","b","e","r">>, <<"b","a","t","c","h"," ","n","o">>, <<"t","a","k","e"," ","u","p">>, <<"t","a","k","e","u","p">>,
               <<"p","i","l","h","a">>, <<"p","i","l","e">>, <<"p","i","l","h","a","/","l","o","t","e">>>>,
     baleCount |-> <<<<"q","t","d","e"," ","f","a","r","d","o","s">>, <<"q","t","d"," ","f","a","r","d","o","s">>, <<"f","a","r","d","o","s">>, <<"q","t","y"," ","b","a","l","e","s">>, <<"b","a","l","e"," ","c","o","u","n","t">>,
                     <<"q","u","a","n","t","i","d","a","d","e">>, <<"q","t","d","e">>, <<"q","t","y">>>>]

\* The header normalisation of findColumnIndex: lowercase, trim, brackets
\* removed, white space collapsed.
normalizeHeader(h) ==
    collapseSpaces(removeChars(trim(toLowerCase(h)), {"[", "]", "(", ")"}))

\* The first alias, in list order, for which hit(alias) finds a header: that
\* header's index; -1 when no alias finds one.
firstAliasHit(aliases, hit(_)) ==
    IF \E k \in DOMAIN aliases : hit(aliases[k]) # -1
    THEN hit(aliases[CHOOSE k \in DOMAIN aliases :
                        hit(aliases[k]) # -1 /\ \A j \in 1..(k - 1) : hit(aliases[j]) = -1])
    ELSE -1

partialOnlyIndex(normalizedHeaders, alias) == -1

exactIndex(normalizedHeaders, alias) == findIndex(normalizedHeaders, LAMBDA h : h = alias)

partialIndex(normalizedHeaders, alias) ==
    findIndex(normalizedHeaders,
              LAMBDA h : h # <<>> /\ (includes(h, alias) \/ includes(alias, h)))

\* The exact match when there is one, else the first partial match.
exactOrPartial(exact, aliases, normalizedHeaders) ==
    IF exact # -1 THEN exact
    ELSE firstAliasHit(aliases, LAMBDA alias : partialIndex(normalizedHeaders, alias))

findNormalized(normalizedHeaders, aliases) ==
    exactOrPartial(firstAliasHit(aliases, LAMBDA alias : exactIndex(normalizedHeaders, alias)),
                   aliases, normalizedHeaders)

findColumnIndex(headers, fieldType) ==
    findNormalized([i \in DOMAIN headers |-> normalizeHeader(headers[i])],
                   COLUMN_ALIASES[fieldType])

\* extractBatchNumber: the label patterns tried on the text, in order.
batchTextPatterns ==
    LET sep == {":"} \cup SpaceChars
    IN  << LitI(<<"P","i","l","h","a","/","L","o","t","e">>) \o <<Star(sep), Cap(Plus(Digits))>>,
           LitI(<<"P","i","l","h","a">>) \o <<Plus(sep), Cap(Plus(Digits))>>,
           LitI(<<"L","o","t","e">>) \o <<Plus(sep), Cap(Plus(Digits))>>,
           LitI(<<"R","o","m","a","n","e","i","o">>) \o <<Plus(SpaceChars), Cap(Plus(Digits))>>,
           LitI(<<"R","o","m","a","n","e","i","o">>) \o <<Plus(sep), Cap(Plus(Digits))>>,
           LitI(<<"B","a","t","c","h">>) \o <<Plus(sep), Cap(Plus(Digits))>>,
           LitI(<<"B","l","o","c","o">>) \o <<Plus(sep), Cap(Plus(Digits))>>,
           LitI(<<"L","O","T">>) \o <<Plus(sep), Cap(Plus(Digits))>>,
           LitI(<<"B","l","o","c","k">>) \o <<Plus(sep), Cap(Plus(Digits))>> >>

\* extractBatchNumber: the patterns tried on the file name, in order.
batchFilenamePatterns ==
    << LitI(<<"b","l","c">>) \o <<Star(SpaceChars), Cap(Plus(Digits))>>,
       LitI(<<"l","o","t","e">>) \o <<Item({"_", "-"}, FALSE, 0, 1, FALSE), Cap(Plus(Digits))>>,
       LitI(<<"l","o","t">>) \o <<Item({"_", "-"}, FALSE, 0, 1, FALSE), Cap(Plus(Digits))>>,
       <<Item(Digits, FALSE, 2, 4, TRUE), In({"."}), NotPlus({"."}), EndOfString>> >>

\* The first capture group of the first pattern, in order, matching t; <<>> when none does.
RECURSIVE firstPatternMatch(_, _, _)
captureOrNext(m, patterns, k, t) ==
    IF m # <<>> THEN <<m[1].caps[1]>> ELSE firstPatternMatch(patterns, k + 1, t)

firstPatternMatch(patterns, k, t) ==
    IF k > Len(patterns) THEN <<>>
    ELSE captureOrNext(Match(t, patterns[k]), patterns, k, t)

fromNameOrNA(fromName) == IF fromName # <<>> THEN fromName[1] ELSE <<"N","/","A">>

fromTextOrName(fromText, filename) ==
    IF fromText # <<>> THEN fromText[1]
    ELSE fromNameOrNA(firstPatternMatch(batchFilenamePatterns, 1, filename))

extractBatchNumberFromName(text, filename) ==
    fromNameOrNA(firstPatternMatch(batchFilenamePatterns, 1, filename))

extractBatchNumber(text, filename) ==
    fromTextOrName(firstPatternMatch(batchTextPatterns, 1, text), filename)

\* isSummaryRow
summaryKeywords ==
    << <<"m","é","d","i","a">>, <<"m","e","d","i","a">>, <<"a","v","e","r","a","g","e">>, <<"a","v","g">>,
       <<"m","í","n","i","m","o">>, <<"m","i","n","i","m","o">>, <<"m","i","n","i","m","u","m">>, <<"m","i","n">>,
       <<"m","á","x","i","m","o">>, <<"m","a","x","i","m","o">>, <<"m","a","x","i","m","u","m">>, <<"m","a","x">>,
       <<"d","e","s","v","i","o">>, <<"d","e","v","i","a","t","i","o","n">>, <<"s","t","d">>, <<"s","d">>,
       <<"c",".","v">>, <<"c","v","%">>, <<"c","o","e","f","i","c","i","e","n","t","e">>,
       <<"q","t","d"," ","f","a","r","d","o","s">>, <<"f","a","r","d","o","s",":">>, <<"t","o","t","a","l">>, <<"s","u","m">> >>

hasSummaryKeyword(str) ==
    str # <<>> /\ \E k \in DOMAIN summaryKeywords : includes(str, summaryKeywords[k])

isSummaryRow(firstCell) ==
    IF firstCell.t = "null" THEN FALSE
    ELSE hasSummaryKeyword(toLowerCase(toString(firstCell)))

\* ------------------------------------------------------------------------
\* Spreadsheet extraction (extractDataFromExcel)
\* A workbook is a sequence of sheets [name, readable, rows]; rows is the
\* rawData of sheet_to_json(header: 1): a sequence of rows, a row a sequence
\* of cells.  readable = FALSE: sheet_to_json throws on the sheet.
\* ------------------------------------------------------------------------

\* A BatchData record.  The minima and maxima are in thousandths, the averages
\* (and sciAvg, a sequence of length 0 for null) are doubles.  extractor is an
\* annotation of the model (the branch of the source that built the record),
\* not a field of BatchData.
BatchData(batchNumber, batchWeight, numberOfBales, mic, uhm, str, sciAvg, sourceFile, extractor) ==
    [batchNumber |-> batchNumber, batchWeight |-> batchWeight, numberOfBales |-> numberOfBales,
     micMin |-> mic.min, micAvg |-> mic.avg, micMax |-> mic.max,
     uhmMin |-> uhm.min, uhmAvg |-> uhm.avg, uhmMax |-> uhm.max,
     strMin |-> str.min, strAvg |-> str.avg, strMax |-> str.max,
     sciAvg |-> sciAvg, sourceFile |-> sourceFile, extractor |-> extractor]

\* min = avg = max = the single value
Single(v) == [min |-> v, avg |-> toDouble(v), max |-> v]

summarySheetKeywords == <<<<"r","e","s","u","m","o">>, <<"s","u","m","m","a","r","y">>, <<"t","o","t","a","i","s">>, <<"t","o","t","a","l">>, <<"c","o","n","s","o","l","i","d","a","d","o">>>>

preferredSheetKeywords ==
    <<<<"a","n","a","l","í","t","i","c","o">>, <<"a","n","a","l","i","t","i","c","o">>, <<"a","n","a","l","y","t","i","c">>, <<"d","a","d","o","s">>, <<"d","a","t","a">>, <<"d","e","t","a","i","l">>, <<"d","e","t","a","l","h","e">>,
      <<"f","a","r","d","o","s">>, <<"b","a","l","e","s">>, <<"h","v","i">>>>

someKeyword(keywords, name) ==
    \E k \in DOMAIN keywords : includes(toLowerCase(name), keywords[k])

nonSummaryOrAll(sheets, nonSummarySheets) ==
    IF Len(nonSummarySheets) > 0 THEN nonSummarySheets ELSE sheets

preferredOrOthers(sheets, preferredSheets) ==
    IF Len(preferredSheets) > 0 THEN preferredSheets
    ELSE nonSummaryOrAll(sheets,
                         SelectSeq(sheets, LAMBDA s : ~someKeyword(summarySheetKeywords, s.name)))

\* sheetsToProcess: the sheets of the workbook that are processed, in order.
sheetsToProcess(sheets) ==
    IF Len(sheets) > 1
    THEN preferredOrOthers(sheets,
                           SelectSeq(sheets, LAMBDA s : someKeyword(preferredSheetKeywords, s.name)))
    ELSE sheets

\* The number of leading rows scanned for a header row.
HeaderScanRows == 15

\* row[idx], 0-based; undefined (Null) outside the row.
cellAt(row, idx) == IF idx >= 0 /\ idx < Len(row) THEN row[idx + 1] ELSE Null

rowAsStrings(row) ==
    [i \in DOMAIN row |-> IF row[i].t = "null" THEN <<>> ELSE toString(row[i])]

keyColumnsFound(hs) ==
    Cardinality({f \in {"mic", "str", "uhm"} : findColumnIndex(hs, f) >= 0})

\* A row with at least 2 of the 3 key columns mic, str, uhm.
isHeaderRow(row) == Len(row) >= 3 /\ keyColumnsFound(rowAsStrings(row)) >= 2

Min2(a, b) == IF a < b THEN a ELSE b

\* headerRowIndex: 0-based index of the first header row among the first 15, or -1.
headerRowIndex(rawData) ==
    findIndex(SubSeq(rawData, 1, Min2(HeaderScanRows, Len(rawData))), isHeaderRow)

columnFields == {"mic", "uhm", "str", "sci", "lot", "weight", "bale", "baleCount"}

columnMapOf(headers) == [f \in columnFields |-> findColumnIndex(headers, f)]

\* `row[col]?.toString()`, '' for a missing column or cell
cellText(row, col) ==
    IF col < 0 \/ cellAt(row, col).t = "null" THEN <<>> ELSE toString(cellAt(row, col))

\* /^00\d{13,}/ on the first cell of the row after the header row
firstCellIsLongBaleCode(rawData, hri) ==
    TestAtStart(Lit(<<"0","0">>) \o <<AtLeast(Digits, 13)>>,
                cellText(IF hri + 2 <= Len(rawData) THEN rawData[hri + 2] ELSE <<>>, 0))

sheetLayoutSummaryFirst(columnMap, longCode) ==
    IF columnMap.baleCount >= 0 /\ ~longCode THEN "aggregated"
    ELSE IF columnMap.lot >= 0 /\ (columnMap.bale >= 0 \/ ~longCode) THEN "grouped"
    ELSE "raw"

\* The extractor a sheet with a header row is handed to.
sheetLayout(columnMap, longCode) ==
    IF columnMap.lot >= 0 /\ (columnMap.bale >= 0 \/ ~longCode) THEN "grouped"
    ELSE IF columnMap.baleCount >= 0 /\ ~longCode /\ ~(columnMap.lot >= 0) THEN "aggregated"
    ELSE "raw"

\* parseNumericValue(row[col]) when the column exists, else dflt
numberAt(row, col, dflt) == IF col >= 0 THEN parseNumericValue(cellAt(row, col)) ELSE dflt

\* `if (!row || row.length < 3) continue; if (isSummaryRow(row[0])) continue`
skippedRow(row) == Len(row) < 3 \/ isSummaryRow(cellAt(row, 0))

pushIfPositive(list, v) == IF v > 0 THEN Append(list, v) ELSE list

\* The parsed cells of the row in the columns of the fields; 0 for a missing column.
numbersAt(row, columnMap, fields) == [f \in fields |-> numberAt(row, columnMap[f], 0)]

newLot(lotValue) ==
    [lot |-> lotValue, micValues |-> <<>>, uhmValues |-> <<>>, strValues |-> <<>>,
     sciValues |-> <<>>, weightValues |-> <<>>, baleCount |-> 0]

\* `if (!lotDataMap.has(lotValue)) lotDataMap.set(lotValue, {...})`
withLot(lotDataMap, lotValue) ==
    IF \E k \in DOMAIN lotDataMap : lotDataMap[k].lot = lotValue THEN lotDataMap
    ELSE Append(lotDataMap, newLot(lotValue))

\* A variant that counts one bale per row whatever the bale-count cell holds.
addToLotOnePerRow(lotData, v, baleCountValue) ==
    [lot |-> lotData.lot,
     micValues |-> pushIfPositive(lotData.micValues, v.mic),
     uhmValues |-> pushIfPositive(lotData.uhmValues, v.uhm),
     strValues |-> pushIfPositive(lotData.strValues, v.str),
     sciValues |-> pushIfPositive(lotData.sciValues, v.sci),
     weightValues |-> pushIfPositive(lotData.weightValues, v.weight),
     baleCount |-> lotData.baleCount + FromInt(1)]

\* The pushes of the values v of one row onto the lists of its lot.
addToLot(lotData, v, baleCountValue) ==
    [lot |-> lotData.lot,
     micValues |-> pushIfPositive(lotData.micValues, v.mic),
     uhmValues |-> pushIfPositive(lotData.uhmValues, v.uhm),
     strValues |-> pushIfPositive(lotData.strValues, v.str),
     sciValues |-> pushIfPositive(lotData.sciValues, v.sci),
     weightValues |-> pushIfPositive(lotData.weightValues, v.weight),
     baleCount |-> lotData.baleCount
                   + (IF baleCountValue # 0 THEN baleCountValue ELSE FromInt(1))]

addToMap(lotDataMap, lotValue, v, baleCountValue) ==
    [k \in DOMAIN lotDataMap |->
        IF lotDataMap[k].lot = lotValue THEN addToLot(lotDataMap[k], v, baleCountValue)
        ELSE lotDataMap[k]]

groupValues(lotDataMap, lotValue, v, baleCountValue) ==
    IF lotValue = <<>> \/ (v.mic = 0 /\ v.str = 0 /\ v.uhm = 0) THEN lotDataMap
    ELSE addToMap(withLot(lotDataMap, lotValue), lotValue, v, baleCountValue)

\* lotDataMap after one row of the sheet.
groupRow(row, columnMap, lotDataMap) ==
    IF skippedRow(row) THEN lotDataMap
    ELSE groupValues(lotDataMap, trim(cellText(row, columnMap.lot)),
                     numbersAt(row, columnMap, {"mic", "uhm", "str", "sci", "weight"}),
                     numberAt(row, columnMap.baleCount, FromInt(1)))

\* Grouped by lot: lotDataMap after the rows i.. of rawData (1-based) have been
\* added; the map is the sequence of its entries in insertion order.
RECURSIVE groupRows(_, _, _, _)
groupRows(rawData, i, columnMap, lotDataMap) ==
    IF i > Len(rawData) THEN lotDataMap
    ELSE groupRows(rawData, i + 1, columnMap, groupRow(rawData[i], columnMap, lotDataMap))

\* A variant that stores the average of the SCI values whatever it is.
sciAsComputed(avg) == <<avg>>

\* `sciStats.avg > 0 ? sciStats.avg : null`
sciOrNull(avg) == IF isPositive(avg) THEN <<avg>> ELSE <<>>

totalOrNA(totalWeight) ==
    IF totalWeight > 0 THEN toFixed(totalWeight, 2) ELSE <<"N","/","A">>

\* `totalWeight > 0 ? totalWeight.toFixed(2) : 'N/A'`
weightOrNA(weightValues) == totalOrNA(SeqSum(weightValues))

\* Grouped by lot: one record per lot key.
groupedRecord(lotData, fileName) ==
    BatchData(lotData.lot, weightOrNA(lotData.weightValues), numToString(lotData.baleCount),
              calculateStats(lotData.micValues), calculateStats(lotData.uhmValues),
              calculateStats(lotData.strValues),
              sciOrNull(calculateStats(lotData.sciValues).avg), fileName, "grouped")

recordsOfLots(lotDataMap, fileName) ==
    [k \in DOMAIN lotDataMap |-> groupedRecord(lotDataMap[k], fileName)]

extractGrouped(rawData, hri, columnMap, fileName) ==
    recordsOfLots(groupRows(rawData, hri + 2, columnMap, <<>>), fileName)

aggregatedRecord(v, sciValue, weightValue, baleCountValue, fileName) ==
    BatchData(extractBatchNumber(<<>>, fileName),
              IF weightValue # <<>> THEN replaceFirst(weightValue, ",", <<".">>)
              ELSE <<"N","/","A">>,
              IF baleCountValue # <<>> THEN baleCountValue ELSE <<"N","/","A">>,
              Single(v.mic), Single(normalizeUhmToInches(v.uhm)), Single(v.str),
              IF sciValue # <<>> /\ sciValue[1] > 0 THEN <<toDouble(sciValue[1])>> ELSE <<>>,
              fileName, "aggregated")

aggregatedValues(row, columnMap, v, fileName) ==
    IF v.mic = 0 /\ v.str = 0 /\ v.uhm = 0 THEN <<>>
    ELSE <<aggregatedRecord(v, IF columnMap.sci >= 0 THEN <<v.sci>> ELSE <<>>,
                            cellText(row, columnMap.weight),
                            cellText(row, columnMap.baleCount), fileName)>>

\* Already aggregated: the record of one data row, <<>> when the row is skipped.
aggregatedRow(row, columnMap, fileName) ==
    IF skippedRow(row) THEN <<>>
    ELSE aggregatedValues(row, columnMap,
                          numbersAt(row, columnMap, {"mic", "uhm", "str", "sci"}), fileName)

RECURSIVE extractAggregated(_, _, _, _)
extractAggregated(rawData, i, columnMap, fileName) ==
    IF i > Len(rawData) THEN <<>>
    ELSE aggregatedRow(rawData[i], columnMap, fileName)
         \o extractAggregated(rawData, i + 1, columnMap, fileName)

emptyRawLists ==
    [micValues |-> <<>>, uhmValues |-> <<>>, strValues |-> <<>>,
     sciValues |-> <<>>, weightValues |-> <<>>, lotNumber |-> <<>>]

\* The pushes of the values v and the lot cell of one row.
addRaw(acc, v, lotText) ==
    [micValues |-> pushIfPositive(acc.micValues, v.mic),
     uhmValues |-> IF v.uhm > 0 THEN Append(acc.uhmValues, normalizeUhmToInches(v.uhm))
                   ELSE acc.uhmValues,
     strValues |-> pushIfPositive(acc.strValues, v.str),
     sciValues |-> pushIfPositive(acc.sciValues, v.sci),
     weightValues |-> pushIfPositive(acc.weightValues, v.weight),
     lotNumber |-> IF acc.lotNumber = <<>> /\ lotText # <<>> /\ lotText # <<"0">>
                   THEN lotText ELSE acc.lotNumber]

rawRow(row, columnMap, acc) ==
    IF skippedRow(row) THEN acc
    ELSE addRaw(acc, numbersAt(row, columnMap, {"mic", "uhm", "str", "sci", "weight"}),
                cellText(row, columnMap.lot))

\* Raw per-bale rows: the value lists after the rows i.. have been added.
RECURSIVE rawRows(_, _, _, _)
rawRows(rawData, i, columnMap, acc) ==
    IF i > Len(rawData) THEN acc
    ELSE rawRows(rawData, i + 1, columnMap, rawRow(rawData[i], columnMap, acc))

Max2(a, b) == IF a > b THEN a ELSE b

\* `lotNumber || sheetLot || extractBatchNumber('', file.name)`
finalLotNumberOf(lotNumber, sheetLot, fileName) ==
    IF lotNumber # <<>> THEN lotNumber
    ELSE IF sheetLot # <<>> THEN sheetLot
    ELSE extractBatchNumber(<<>>, fileName)

rawResult(acc, fileName, sheetName) ==
    IF Len(acc.micValues) > 0 \/ Len(acc.uhmValues) > 0 \/ Len(acc.strValues) > 0
    THEN << BatchData(finalLotNumberOf(acc.lotNumber, keepChars(sheetName, Digits), fileName),
                      weightOrNA(acc.weightValues),
                      NatToString(Max2(Len(acc.micValues),
                                       Max2(Len(acc.uhmValues), Len(acc.strValues)))),
                      calculateStats(acc.micValues), calculateStats(acc.uhmValues),
                      calculateStats(acc.strValues),
                      sciOrNull(calculateStats(acc.sciValues).avg),
                      fileName \o <<" ","[">> \o sheetName \o <<"]">>, "raw") >>
    ELSE <<>>

extractRaw(rawData, hri, columnMap, fileName, sheetName) ==
    rawResult(rawRows(rawData, hri + 2, columnMap, emptyRawLists), fileName, sheetName)

extractLayout(rawData, hri, columnMap, layout, fileName, sheetName) ==
    IF layout = "grouped" THEN extractGrouped(rawData, hri, columnMap, fileName)
    ELSE IF layout = "aggregated" THEN extractAggregated(rawData, hri + 2, columnMap, fileName)
    ELSE extractRaw(rawData, hri, columnMap, fileName, sheetName)

extractMapped(rawData, hri, columnMap, fileName, sheetName) ==
    extractLayout(rawData, hri, columnMap,
                  sheetLayout(columnMap, firstCellIsLongBaleCode(rawData, hri)),
                  fileName, sheetName)

extractFromHeader(rawData, hri, fileName, sheetName) ==
    IF hri = -1 THEN <<>>
    ELSE extractMapped(rawData, hri, columnMapOf(rowAsStrings(rawData[hri + 1])),
                       fileName, sheetName)

\* The body of the sheet loop for one readable sheet: the records it pushes.
extractSheet(sheet, fileName) ==
    IF Len(sheet.rows) < 2 THEN <<>>
    ELSE extractFromHeader(sheet.rows, headerRowIndex(sheet.rows), fileName, sheet.name)

\* ------------------------------------------------------------------------
\* PDF extraction (extractDataFromPDF)
\* A PDF is its sequence of page texts (the items of a page joined by " ").
\* ------------------------------------------------------------------------

\* fullText: every page text followed by "\n"
RECURSIVE fullTextOf(_)
fullTextOf(pages) ==
    IF pages = <<>> THEN <<>> ELSE Head(pages) \o <<"\n">> \o fullTextOf(Tail(pages))

\* String.prototype.substring(start, end), 0-based, with its clamping and swap
substring(s, start, end) ==
    LET clamp(x) == IF x < 0 THEN 0 ELSE IF x > Len(s) THEN Len(s) ELSE x
        a == Min2(clamp(start), clamp(end))
        b == Max2(clamp(start), clamp(end))
    IN  SubSeq(s, a + 1, b)

NumberChars == Digits \cup {",", "."}

\* ([\d,\.]+)
NumberGroup == Cap(Plus(NumberChars))

\* /00\d{14,}/g
baleCodePattern == Lit(<<"0","0">>) \o <<AtLeast(Digits, 14)>>

\* /^-?\d+\.?\d*$/ and /^\d+\.?\d*$/
signedNumberToken ==
    <<Item({"-"}, FALSE, 0, 1, FALSE), Plus(Digits), Item({"."}, FALSE, 0, 1, FALSE),
      Star(Digits), EndOfString>>

plainNumberToken ==
    <<Plus(Digits), Item({"."}, FALSE, 0, 1, FALSE), Star(Digits), EndOfString>>

\* /^\d+-\d+$/, a type code such as 21-3
typeCodeToken == <<Plus(Digits), In({"-"}), Plus(Digits), EndOfString>>

inRange(n, lo, hi) == n >= lo /\ n <= hi

\* numbers.find((n, idx) => idx >= a && idx <= b && n >= lo && n <= hi)
findInBand(numbers, a, b, lo, hi) ==
    LET ok(i) == i - 1 >= a /\ i - 1 <= b /\ inRange(numbers[i], lo, hi)
    IN  IF \E i \in DOMAIN numbers : ok(i)
        THEN <<numbers[CHOOSE i \in DOMAIN numbers : ok(i) /\ \A j \in 1..(i - 1) : ~ok(j)]>>
        ELSE <<>>

optAt(numbers, i) == IF i = -1 THEN <<>> ELSE <<numbers[i + 1]>>

\* numbers.find(n => P(n))
findFirst(numbers, P(_)) == optAt(numbers, findIndex(numbers, P))

\* Math.round
round(v) == ((v + (Unit \div 2)) \div Unit) * Unit

\* Math.abs(val - Math.round(val)) < 0.01
isWhole(v) == LET d == v - round(v) IN (IF d < 0 THEN 0 - d ELSE d) < 10

\* `.map(s => s.replace(',', '.'))`
commaToDot(tokens) == [i \in DOMAIN tokens |-> replaceFirst(tokens[i], ",", <<".">>)]

parseAll(kept) == [i \in DOMAIN kept |-> parseFloat(kept[i])[1]]

\* `.filter(s => tokenPattern.test(s)).map(s => parseFloat(s))`
numbersOf(normed, tokenPattern) ==
    parseAll(SelectSeq(normed, LAMBDA s : TestAtStart(tokenPattern, s)))

\* A token with the Brazilian thousands separators removed.
brazilianToDot(s) ==
    IF (\E i \in DOMAIN s : s[i] = ".") /\ (\E i \in DOMAIN s : s[i] = ",")
       /\ lastIndexOf(s, ",") > lastIndexOf(s, ".")
    THEN replaceFirst(removeChars(s, {"."}), ",", <<".">>)
    ELSE replaceFirst(s, ",", <<".">>)

brazilianToDotAll(tokens) == [i \in DOMAIN tokens |-> brazilianToDot(tokens[i])]

\* The numbers of a bale segment in formats B: the tokens that are not type
\* codes, Brazilian thousands separators removed, that read as a number.
segmentNumbersG4(segment) ==
    numbersOf(brazilianToDotAll(SelectSeq(splitSpaces(segment),
                                          LAMBDA s : ~TestAtStart(typeCodeToken, s))),
              signedNumberToken)

\* The numbers of a bale segment in format C.
segmentNumbersSiagri(segment) == numbersOf(commaToDot(splitSpaces(segment)), signedNumberToken)

endsOf(ms) == [i \in DOMAIN ms |-> ms[i].end - 1]

\* balePositions: the 0-based position after each bale code
balePositionsOf(fullText) == endsOf(MatchAll(fullText, baleCodePattern))

\* The text after bale code i, up to 20 characters before the end of the next
\* code, or `tail` characters for the last code.
baleSegment(fullText, balePositions, i, tail) ==
    substring(fullText, balePositions[i],
              IF i < Len(balePositions) THEN balePositions[i + 1] - 20
              ELSE balePositions[i] + tail)

emptyLists ==
    [micValues |-> <<>>, uhmValues |-> <<>>, strValues |-> <<>>, sciValues |-> <<>>,
     weightValues |-> <<>>]

optAppend(list, opt) == IF opt # <<>> /\ opt[1] # 0 THEN Append(list, opt[1]) ELSE list

\* The SCI of a format B bale: the last of the final 8 numbers that is a whole
\* number in 84..92, rounded.
RECURSIVE sciFromEnd(_, _)
sciFromEnd(numbers, idx) ==
    IF idx < Max2(0, Len(numbers) - 8) THEN <<>>
    ELSE IF inRange(numbers[idx + 1], 84000, 92000) /\ isWhole(numbers[idx + 1])
         THEN <<round(numbers[idx + 1])>>
         ELSE sciFromEnd(numbers, idx - 1)

pushWeight(weightValues, weight) ==
    IF inRange(weight, 150000, 300000) THEN Append(weightValues, weight) ELSE weightValues

\* The pushes of one bale of formats B.
addBaleG4(acc, numbers) ==
    [micValues |-> optAppend(acc.micValues, findInBand(numbers, 7, 10, 3500, 5500)),
     uhmValues |-> optAppend(acc.uhmValues, findInBand(numbers, 2, 5, 1000, 1350)),
     strValues |-> optAppend(acc.strValues, findInBand(numbers, 5, 8, 28000, 35000)),
     sciValues |-> optAppend(acc.sciValues, sciFromEnd(numbers, Len(numbers) - 1)),
     weightValues |-> pushWeight(acc.weightValues, numbers[1])]

readBaleG4(acc, numbers, minNumbers) ==
    IF Len(numbers) >= minNumbers THEN addBaleG4(acc, numbers) ELSE acc

\* Formats B: the value lists after bales i.. have been read; a bale counts
\* when its segment holds at least minNumbers numbers.
RECURSIVE readBalesG4(_, _, _, _, _)
readBalesG4(fullText, balePositions, i, minNumbers, acc) ==
    IF i > Len(balePositions) THEN acc
    ELSE readBalesG4(fullText, balePositions, i + 1, minNumbers,
                     readBaleG4(acc, segmentNumbersG4(baleSegment(fullText, balePositions, i, 400)),
                                minNumbers))

\* The pushes of one bale of format C.
addBaleSiagri(acc, numbers) ==
    [micValues |-> optAppend(acc.micValues, findInBand(numbers, 9, Len(numbers), 3500, 5500)),
     uhmValues |-> optAppend(acc.uhmValues, findInBand(numbers, 4, 6, 1000, 1350)),
     strValues |-> optAppend(acc.strValues, findInBand(numbers, 7, 10, 25000, 35000)),
     sciValues |-> acc.sciValues,
     weightValues |-> pushWeight(acc.weightValues, numbers[1])]

readBaleSiagri(acc, numbers) == IF Len(numbers) >= 10 THEN addBaleSiagri(acc, numbers) ELSE acc

\* Format C: the value lists after bales i.. have been read.
RECURSIVE readBalesSiagri(_, _, _, _)
readBalesSiagri(fullText, balePositions, i, acc) ==
    IF i > Len(balePositions) THEN acc
    ELSE readBalesSiagri(fullText, balePositions, i + 1,
                         readBaleSiagri(acc, segmentNumbersSiagri(
                                                 baleSegment(fullText, balePositions, i, 200))))

\* `weightValues.length > 0 ? sum.toFixed(2) : batchWeight`
weightOr(weightValues, batchWeight) ==
    IF Len(weightValues) > 0 THEN toFixed(SeqSum(weightValues), 2) ELSE batchWeight

anyValues(acc) == Len(acc.micValues) > 0 \/ Len(acc.uhmValues) > 0 \/ Len(acc.strValues) > 0

\* \s+ between two words of a label
Gap == <<Plus(SpaceChars)>>

\* /Romaneio\s+com\s+HVI/i
romaneioHVIPattern == LitI(<<"R","o","m","a","n","e","i","o">>) \o Gap \o LitI(<<"c","o","m">>) \o Gap \o LitI(<<"H","V","I">>)

\* /Pilha\/Lote[:\s]*(\d+)/i
pilhaLotePattern == LitI(<<"P","i","l","h","a","/","L","o","t","e">>) \o <<Star({":"} \cup SpaceChars), Cap(Plus(Digits))>>

\* /Peso\s+do\s+Lote\s*[;:]?\s*([\d.,]+)/i
pesoLotePattern ==
    LitI(<<"P","e","s","o">>) \o Gap \o LitI(<<"d","o">>) \o Gap \o LitI(<<"L","o","t","e">>)
    \o <<Star(SpaceChars), Item({";", ":"}, FALSE, 0, 1, FALSE), Star(SpaceChars), NumberGroup>>

\* ([\d,\.]+)\s+([\d,\.]+)\s+ ... : n number groups separated by white space
RECURSIVE numberGroups(_)
numberGroups(n) ==
    IF n = 1 THEN <<NumberGroup>> ELSE <<NumberGroup>> \o Gap \o numberGroups(n - 1)

\* /[^\w]M[íi]nimo[^\d]*(six numbers)/i and its Média and Máximo variants:
\* second is the class of the accented second letter, rest the rest of the label.
summaryLinePattern(second, rest) ==
    <<NotIn(WordChars), In({"M", "m"}), In(second)>> \o LitI(rest)
    \o <<NotStar(Digits)>> \o numberGroups(6)

minimoLinePattern == summaryLinePattern({"í", "Í", "i", "I"}, <<"n","i","m","o">>)

mediaLinePattern == summaryLinePattern({"é", "É", "e", "E"}, <<"d","i","a">>)

maximoLinePattern == summaryLinePattern({"á", "Á", "a", "A"}, <<"x","i","m","o">>)

\* /[^\w]M[ée]dia[^\n\r]+/i
mediaFullLinePattern ==
    <<NotIn(WordChars), In({"M", "m"}), In({"é", "É", "e", "E"})>> \o LitI(<<"d","i","a">>)
    \o <<NotPlus({"\n", "\r"})>>

\* The text of a match
matched(t, m) == SubSeq(t, m.index, m.end - 1)

\* The SCI of the Média line: scanning from the last but one number down, a
\* value in 100..180 whose next number is in 2000..2500.
RECURSIVE sciFromMedia(_, _)
sciOrEarlier(allNumbers, i, val, nextVal) ==
    IF inRange(val, 100000, 180000) /\ inRange(nextVal, 2000000, 2500000)
    THEN <<val>>
    ELSE sciFromMedia(allNumbers, i - 1)

sciFromMediaAlone(allNumbers, i) ==
    IF i < 0 THEN <<>>
    ELSE sciOrEarlier(allNumbers, i, parseNumericValue(Str(allNumbers[i + 1])), 2000000)

sciFromMedia(allNumbers, i) ==
    IF i < 0 THEN <<>>
    ELSE sciOrEarlier(allNumbers, i, parseNumericValue(Str(allNumbers[i + 1])),
                      IF i + 1 < Len(allNumbers)
                      THEN parseNumericValue(Str(allNumbers[i + 2])) ELSE 0)

matchedTexts(line, ms) == [i \in DOMAIN ms |-> matched(line, ms[i])]

\* `mediaFullLine[0].match(/[\d,\.]+/g)`
numbersOfLine(line) == matchedTexts(line, MatchAll(line, <<Plus(NumberChars)>>))

sciOfNumbers(allNumbers) == sciFromMedia(allNumbers, Len(allNumbers) - 2)

sciOfLine(fullText, mediaFullLine) ==
    IF mediaFullLine = <<>> THEN <<>>
    ELSE sciOfNumbers(numbersOfLine(matched(fullText, mediaFullLine[1])))

sciAvgOfMediaLine(fullText) == sciOfLine(fullText, Match(fullText, mediaFullLinePattern))

\* Condition 1: the Romaneio com HVI layout (format A)
isRomaneioHVI(fullText) ==
    \/ Test(romaneioHVIPattern, fullText)
    \/ /\ Test(pilhaLotePattern, fullText)
       /\ includes(fullText, <<"M","I","C">>)
       /\ includes(fullText, <<"R","E","S">>)

\* Condition 2: the G4 COTTON layout (formats B)
isG4CottonFormat(fullText) ==
    \/ includes(fullText, <<"G","4"," ","C","O","T","T","O","N">>)
    \/ includes(fullText, <<"C","l","a","s","s","i","f","i","c","a","ç","ã","o"," ","d","o"," ","L","o","t","e"," ","d","e"," ","P","l","u","m","a","s">>)
    \/ includes(fullText, <<"C","l","a","s","s","i","f","i","c","a","c","a","o"," ","d","o"," ","L","o","t","e"," ","d","e"," ","P","l","u","m","a","s">>)
    \/ /\ includes(fullText, <<"R","o","m","a","n","e","i","o">>)
       /\ Test(LitI(<<"F","a","r","d","o">>) \o Gap \o <<In({"L", "l"}), In({"i", "I", "í", "Í"})>>
               \o LitI(<<"q","u","i","d","o">>), fullText)

\* /Qtd\s*Fardos\s+(\d{2,})\s+(seven numbers)/i
qtdFardosWithAvgPattern ==
    LitI(<<"Q","t","d">>) \o <<Star(SpaceChars)>> \o LitI(<<"F","a","r","d","o","s">>) \o Gap
    \o <<Cap(AtLeast(Digits, 2))>> \o Gap \o numberGroups(7)

\* /Qtd\s*Fardos\s+(\d+)/i
siagriPattern ==
    LitI(<<"Q","t","d">>) \o <<Star(SpaceChars)>> \o LitI(<<"F","a","r","d","o","s">>) \o Gap \o <<Cap(Plus(Digits))>>

\* Condition 3: the Siagri layout (format C)
isSiagri(fullText) ==
    /\ Test(siagriPattern, fullText)
    /\ includes(fullText, <<"S","i","a","g","r","i">>) \/ includes(fullText, <<"A","L","G","O","D","O","E","I","R","A">>)

\* `baleCount > 0 ? baleCount.toString() : alt`
countOr(n, alt) == IF n > 0 THEN NatToString(n) ELSE alt

pesoOrNA(pesoLoteMatch) ==
    IF pesoLoteMatch # <<>> THEN replaceFirst(pesoLoteMatch[1].caps[1], ",", <<".">>)
    ELSE <<"N","/","A">>

weightForgotten(fullText) == <<"N","/","A">>

\* The weight the format A branch leaves in batchWeight.
weightAfterRomaneio(fullText) ==
    IF isRomaneioHVI(fullText) THEN pesoOrNA(Match(fullText, pesoLotePattern))
    ELSE <<"N","/","A">>

\* parseNumericValue of capture group g of a summary line
group(line, g) == parseNumericValue(Str(line[1].caps[g]))

\* `minimoLine ? parseNumericValue(minimoLine[g]) : avg`
lineOr(line, mediaLine) == IF line # <<>> THEN line ELSE mediaLine

statOfLines(minimoLine, mediaLine, maximoLine, g) ==
    [min |-> group(lineOr(minimoLine, mediaLine), g),
     avg |-> toDouble(group(mediaLine, g)),
     max |-> group(lineOr(maximoLine, mediaLine), g)]

\* The length of the summary lines (group 2), each value normalised to inches.
uhmOfLines(minimoLine, mediaLine, maximoLine) ==
    [min |-> normalizeUhmToInches(group(lineOr(minimoLine, mediaLine), 2)),
     avg |-> toDouble(normalizeUhmToInches(group(mediaLine, 2))),
     max |-> normalizeUhmToInches(group(lineOr(maximoLine, mediaLine), 2))]

\* `sciAvg` of the Média line as a number or null
optDouble(opt) == IF opt = <<>> THEN <<>> ELSE <<toDouble(opt[1])>>

romaneioRecord(minimoLine, mediaLine, maximoLine, fullText, batchNumber, batchWeight, fileName) ==
    BatchData(batchNumber, batchWeight,
              countOr(Len(MatchAll(fullText, baleCodePattern)), <<"N","/","A">>),
              statOfLines(minimoLine, mediaLine, maximoLine, 3),
              uhmOfLines(minimoLine, mediaLine, maximoLine),
              statOfLines(minimoLine, mediaLine, maximoLine, 5),
              optDouble(sciAvgOfMediaLine(fullText)), fileName, "A")

fromMediaLine(mediaLine, fullText, batchNumber, batchWeight, fileName) ==
    IF mediaLine = <<>> THEN <<>>
    ELSE <<romaneioRecord(Match(fullText, minimoLinePattern), mediaLine,
                          Match(fullText, maximoLinePattern),
                          fullText, batchNumber, batchWeight, fileName)>>

\* Format A: the record of the summary lines; <<>> without a Média line.
extractRomaneioHVI(fullText, batchNumber, batchWeight, fileName) ==
    fromMediaLine(Match(fullText, mediaLinePattern), fullText, batchNumber, batchWeight, fileName)

preferSummaryAlways(stats, avg) ==
    [min |-> IF stats.min > 0 THEN stats.min ELSE avg,
     avg |-> toDouble(avg),
     max |-> IF stats.max > 0 THEN stats.max ELSE avg]

\* `stats.min > 0 ? stats.min : avg`, `avg > 0 ? avg : stats.avg`
preferSummary(stats, avg) ==
    [min |-> IF stats.min > 0 THEN stats.min ELSE avg,
     avg |-> IF avg > 0 THEN toDouble(avg) ELSE stats.avg,
     max |-> IF stats.max > 0 THEN stats.max ELSE avg]

summaryRecordShifted(qtd, balePositions, acc, batchNumber, batchWeight, fileName) ==
    BatchData(batchNumber, weightOr(acc.weightValues, batchWeight),
              countOr(Len(balePositions), qtd.caps[1]),
              preferSummary(calculateStats(acc.micValues), parseNumericValue(Str(qtd.caps[7]))),
              preferSummary(calculateStats(acc.uhmValues), parseNumericValue(Str(qtd.caps[2]))),
              preferSummary(calculateStats(acc.strValues), parseNumericValue(Str(qtd.caps[5]))),
              sciOrNull(calculateStats(acc.sciValues).avg), fileName, "B-summary")

summaryRecord(qtd, balePositions, acc, batchNumber, batchWeight, fileName) ==
    BatchData(batchNumber, weightOr(acc.weightValues, batchWeight),
              countOr(Len(balePositions), qtd.caps[1]),
              preferSummary(calculateStats(acc.micValues), parseNumericValue(Str(qtd.caps[8]))),
              preferSummary(calculateStats(acc.uhmValues), parseNumericValue(Str(qtd.caps[3]))),
              preferSummary(calculateStats(acc.strValues), parseNumericValue(Str(qtd.caps[6]))),
              sciOrNull(calculateStats(acc.sciValues).avg), fileName, "B-summary")

summaryWithBales(qtd, fullText, balePositions, batchNumber, batchWeight, fileName) ==
    summaryRecord(qtd, balePositions, readBalesG4(fullText, balePositions, 1, 10, emptyLists),
                  batchNumber, batchWeight, fileName)

\* Format B with the summary line: always a record.
extractG4Summary(fullText, batchNumber, batchWeight, fileName) ==
    summaryWithBales(Match(fullText, qtdFardosWithAvgPattern)[1], fullText,
                     balePositionsOf(fullText), batchNumber, batchWeight, fileName)

balesRecord(acc, balePositions, batchNumber, batchWeight, fileName) ==
    IF anyValues(acc)
    THEN << BatchData(batchNumber, weightOr(acc.weightValues, batchWeight),
                      NatToString(Len(balePositions)),
                      calculateStats(acc.micValues), calculateStats(acc.uhmValues),
                      calculateStats(acc.strValues),
                      sciOrNull(calculateStats(acc.sciValues).avg), fileName, "B-bales") >>
    ELSE <<>>

readG4Bales(fullText, balePositions, batchNumber, batchWeight, fileName) ==
    balesRecord(readBalesG4(fullText, balePositions, 1, 8, emptyLists), balePositions,
                batchNumber, batchWeight, fileName)

\* Format B without the summary line: a record when a bale gave a value.
extractG4Bales(fullText, batchNumber, batchWeight, fileName) ==
    readG4Bales(fullText, balePositionsOf(fullText), batchNumber, batchWeight, fileName)

\* Format C: the value lists of the bales.
siagriLists(fullText) == readBalesSiagri(fullText, balePositionsOf(fullText), 1, emptyLists)

\* Format C: the record returned when a bale gave a value.
siagriRecord(acc, batchNumber, numberOfBales, batchWeight, fileName) ==
    BatchData(batchNumber, batchWeight, numberOfBales,
              calculateStats(acc.micValues), calculateStats(acc.uhmValues),
              calculateStats(acc.strValues), <<>>, fileName, "C")

\* The generic path: balesPatterns, in order.
\* /(\d+)\s*Fardos\s+([\d.,]+)/i
balesWithWeightPattern ==
    <<Cap(Plus(Digits)), Star(SpaceChars)>> \o LitI(<<"F","a","r","d","o","s">>) \o Gap \o <<NumberGroup>>

\* /Fardos[:\s]+(\d+)/i
fardosPattern == LitI(<<"F","a","r","d","o","s">>) \o <<Plus({":"} \cup SpaceChars), Cap(Plus(Digits))>>

\* /Qtd\s*Fardos[:\s]+(\d+)/i
qtdFardosPattern ==
    LitI(<<"Q","t","d">>) \o <<Star(SpaceChars)>> \o LitI(<<"F","a","r","d","o","s">>)
    \o <<Plus({":"} \cup SpaceChars), Cap(Plus(Digits))>>

\* /Peso[:\s]+([\d.,]+)\s*Kg/i
pesoKgPattern ==
    LitI(<<"P","e","s","o">>) \o <<Plus({":"} \cup SpaceChars), NumberGroup, Star(SpaceChars)>> \o LitI(<<"K","g">>)

\* `numberOfBales = match[1]; batchWeight = match[2].replace(",", ".")`
assignBalesAndWeight(bw, m) ==
    IF m # <<>>
    THEN [numberOfBales |-> m[1].caps[1],
          batchWeight |-> replaceFirst(m[1].caps[2], ",", <<".">>)]
    ELSE bw

\* `numberOfBales = match[1]`
assignBales(bw, m) ==
    IF m # <<>> THEN [numberOfBales |-> m[1].caps[1], batchWeight |-> bw.batchWeight] ELSE bw

\* `batchWeight = match[1].replace(",", ".")`
assignWeight(bw, m) ==
    IF m # <<>>
    THEN [numberOfBales |-> bw.numberOfBales,
          batchWeight |-> replaceFirst(m[1].caps[1], ",", <<".">>)]
    ELSE bw

\* The loop over balesPatterns: every matching pattern assigns, in list order,
\* starting from the bale count and weight the earlier branches left behind.
balesAndWeight(fullText, numberOfBales, batchWeight) ==
    assignWeight(
        assignBales(
            assignBales(
                assignBalesAndWeight([numberOfBales |-> numberOfBales, batchWeight |-> batchWeight],
                                     Match(fullText, balesWithWeightPattern)),
                Match(fullText, fardosPattern)),
            Match(fullText, qtdFardosPattern)),
        Match(fullText, pesoKgPattern))

\* extractSummaryStats: the labels of each statistic, in order.
statLabels ==
    [min |-> <<<<"m","í","n","i","m","o">>, <<"m","i","n","i","m","o">>, <<"m","i","n","i","m","u","m">>, <<"m","i","n">>, <<"3","-"," ","m","í","n","i","m","o">>, <<"3","-","m","í","n","i","m","o">>>>,
     avg |-> <<<<"m","é","d","i","a">>, <<"m","e","d","i","a">>, <<"a","v","e","r","a","g","e">>, <<"a","v","g">>, <<"1","-"," ","m","é","d","i","a">>, <<"1","-","m","é","d","i","a">>>>,
     max |-> <<<<"m","á","x","i","m","o">>, <<"m","a","x","i","m","o">>, <<"m","a","x","i","m","u","m">>, <<"m","a","x">>, <<"2","-"," ","m","á","x","i","m","o">>, <<"2","-","m","á","x","i","m","o">>>>]

\* new RegExp(`${label}[:\s]+([\d,\.\s]+)`, 'i')
labelPattern(label) ==
    LitI(label) \o <<Plus({":"} \cup SpaceChars), Cap(Plus(NumberChars \cup SpaceChars))>>

\* The numbers after the first label, in order, that matches; <<>> when no
\* label matches or no number follows.
RECURSIVE labelNumbersFrom(_, _, _)
numbersOrNextLabel(m, fullText, labels, k) ==
    IF m # <<>> THEN numbersOf(commaToDot(splitSpaces(m[1].caps[1])), plainNumberToken)
    ELSE labelNumbersFrom(fullText, labels, k + 1)

labelNumbersFrom(fullText, labels, k) ==
    IF k > Len(labels) THEN <<>>
    ELSE numbersOrNextLabel(Match(fullText, labelPattern(labels[k])), fullText, labels, k)

labelNumbers(fullText, statType) == labelNumbersFrom(fullText, statLabels[statType], 1)

isUhmCandidate(n) == inRange(n, 900, 1500) \/ inRange(n, 25000, 40000)

valueOrZero(opt) == IF opt # <<>> THEN opt[1] ELSE 0

rowFields(micValue, uhmValue, strValue, sciValue) ==
    [mic |-> valueOrZero(micValue),
     uhm |-> IF uhmValue # <<>> /\ uhmValue[1] # 0 THEN normalizeUhmToInches(uhmValue[1]) ELSE 0,
     str |-> valueOrZero(strValue),
     sci |-> valueOrZero(sciValue)]

rowWithUhm(numbers, uhmValue) ==
    rowFields(findFirst(numbers, LAMBDA n : inRange(n, 3000, 6000)),
              uhmValue,
              findFirst(numbers, LAMBDA n : inRange(n, 25000, 40000) /\ <<n>> # uhmValue),
              findFirst(numbers, LAMBDA n : inRange(n, 80000, 200000)))

\* The four fields read from the numbers of one labelled row.
labelledRow(numbers) == rowWithUhm(numbers, findFirst(numbers, isUhmCandidate))

statOfRows(min, avg, max, f) == [min |-> min[f], avg |-> toDouble(avg[f]), max |-> max[f]]

statsOfRows(min, avg, max) ==
    [mic |-> statOfRows(min, avg, max, "mic"), uhm |-> statOfRows(min, avg, max, "uhm"),
     str |-> statOfRows(min, avg, max, "str"), sci |-> statOfRows(min, avg, max, "sci")]

extractSummaryStats(fullText) ==
    statsOfRows(labelledRow(labelNumbers(fullText, "min")),
                labelledRow(labelNumbers(fullText, "avg")),
                labelledRow(labelNumbers(fullText, "max")))

\* The length of the separator \n or \s{3,} at position i of s, 0 when none starts there.
atLeastThree(n) == IF n >= 3 THEN n ELSE 0

sepLen(s, i) == IF s[i] = "\n" THEN 1 ELSE atLeastThree(RunLen(Plus(SpaceChars), s, i))

\* String.prototype.split(/\n|\s{3,}/)
RECURSIVE splitLines(_)
splitLinesAt(s, k, n) == <<SubSeq(s, 1, k - 1)>> \o splitLines(SubSeq(s, k + n, Len(s)))

splitAtSeparator(s, k) == splitLinesAt(s, k, sepLen(s, k))

splitLines(s) ==
    IF \E i \in DOMAIN s : sepLen(s, i) > 0
    THEN splitAtSeparator(s, CHOOSE i \in DOMAIN s :
                                 sepLen(s, i) > 0 /\ \A j \in 1..(i - 1) : sepLen(s, j) = 0)
    ELSE <<s>>

\* /^00\d{10,}/ or /^\d{15,}/ on the trimmed line
startsWithBaleNumber(line) ==
    \/ TestAtStart(Lit(<<"0","0">>) \o <<AtLeast(Digits, 10)>>, trim(line))
    \/ TestAtStart(<<AtLeast(Digits, 15)>>, trim(line))

\* The numbers below 10000 of a row.
rowNumbers(line) ==
    SelectSeq(numbersOf(commaToDot(splitSpaces(line)), plainNumberToken),
              LAMBDA n : n < FromInt(10000))

\* One number of a row sorted into a list by its range.
categorize(acc, num) ==
    IF inRange(num, 3000, 6000) THEN [acc EXCEPT !.micValues = Append(@, num)]
    ELSE IF inRange(num, 900, 1500) THEN [acc EXCEPT !.uhmValues = Append(@, num)]
    ELSE IF inRange(num, 25000, 40000)
         THEN IF inRange(num, 27000, 35000)
              THEN IF Len(acc.uhmValues) > 0
                   THEN [acc EXCEPT !.strValues = Append(@, num)]
                   ELSE [acc EXCEPT !.uhmValues = Append(@, normalizeUhmToInches(num))]
              ELSE IF num > 35000
                   THEN [acc EXCEPT !.strValues = Append(@, num)]
                   ELSE [acc EXCEPT !.uhmValues = Append(@, normalizeUhmToInches(num))]
    ELSE IF inRange(num, 80000, 200000) THEN [acc EXCEPT !.sciValues = Append(@, num)]
    ELSE acc

RECURSIVE categorizeAll(_, _)
categorizeAll(acc, numbers) ==
    IF numbers = <<>> THEN acc ELSE categorizeAll(categorize(acc, Head(numbers)), Tail(numbers))

numbersOfRows(lines) == Flatten([i \in DOMAIN lines |-> rowNumbers(lines[i])])

\* The row-by-row fallback: the lists of every row that starts with a bale number.
rowScan(fullText) ==
    categorizeAll(emptyLists, numbersOfRows(SelectSeq(splitLines(fullText), startsWithBaleNumber)))

statsOr(values, stats) == IF Len(values) > 0 THEN calculateStats(values) ELSE stats

\* The statistics of the rows where a list is not empty, else those of the labels.
rowStats(summary, acc) ==
    [mic |-> statsOr(acc.micValues, summary.mic), uhm |-> statsOr(acc.uhmValues, summary.uhm),
     str |-> statsOr(acc.strValues, summary.str), sci |-> statsOr(acc.sciValues, summary.sci)]

genericRecord(batchNumber, batchWeight, numberOfBales, stats, fileName, extractor) ==
    BatchData(batchNumber, batchWeight, numberOfBales, stats.mic, stats.uhm, stats.str,
              sciOrNull(stats.sci.avg), fileName, extractor)

fromRows(summary, acc, bw, batchNumber, fileName) ==
    genericRecord(batchNumber, bw.batchWeight,
                  IF bw.numberOfBales = <<"N","/","A">> /\ Len(acc.micValues) > 0
                  THEN NatToString(Len(acc.micValues)) ELSE bw.numberOfBales,
                  rowStats(summary, acc), fileName, "D-rows")

fromLabels(summary, fullText, bw, batchNumber, fileName) ==
    IF summary.mic.avg = Zero /\ summary.str.avg = Zero
    THEN fromRows(summary, rowScan(fullText), bw, batchNumber, fileName)
    ELSE genericRecord(batchNumber, bw.batchWeight, bw.numberOfBales, summary, fileName,
                       "D-labels")

\* The generic path (format D): always a record.
extractGeneric(fullText, batchNumber, numberOfBales, batchWeight, fileName) ==
    fromLabels(extractSummaryStats(fullText), fullText,
               balesAndWeight(fullText, numberOfBales, batchWeight), batchNumber, fileName)

\* A variant of the Siagri branch that returns its record without looking at
\* the value lists.
siagriUnconditional(acc, fullText, batchNumber, numberOfBales, batchWeight, fileName) ==
    siagriRecord(acc, batchNumber, numberOfBales, batchWeight, fileName)

\* Format C, then the generic path with the bale count and the weight the
\* Siagri branch leaves behind.
siagriOrGeneric(acc, fullText, batchNumber, numberOfBales, batchWeight, fileName) ==
    IF anyValues(acc) THEN siagriRecord(acc, batchNumber, numberOfBales, batchWeight, fileName)
    ELSE extractGeneric(fullText, batchNumber, numberOfBales, batchWeight, fileName)

extractSiagri(acc, fullText, batchNumber, numberOfBales, batchWeight, fileName) ==
    siagriOrGeneric(acc, fullText, batchNumber, numberOfBales,
                    weightOr(acc.weightValues, batchWeight), fileName)

afterG4(formatB, fullText, batchNumber, numberOfBales, batchWeight, fileName) ==
    IF formatB # <<>> THEN formatB[1]
    ELSE IF isSiagri(fullText)
         THEN extractSiagri(siagriLists(fullText), fullText, batchNumber,
                            Match(fullText, siagriPattern)[1].caps[1], batchWeight, fileName)
         ELSE extractGeneric(fullText, batchNumber, numberOfBales, batchWeight, fileName)

\* Formats B, then the later branches.
afterRomaneioHVI(formatA, fullText, batchNumber, batchWeight, fileName, isG4, hasSummary) ==
    IF formatA # <<>> THEN formatA[1]
    ELSE IF isG4 /\ hasSummary
         THEN extractG4Summary(fullText, batchNumber, batchWeight, fileName)
         ELSE afterG4(IF isG4 THEN extractG4Bales(fullText, batchNumber, batchWeight, fileName)
                      ELSE <<>>,
                      fullText, batchNumber,
                      IF isG4 THEN countOr(Len(MatchAll(fullText, baleCodePattern)),
                                           <<"N","/","A">>)
                      ELSE <<"N","/","A">>,
                      batchWeight, fileName)

\* Format A, then the later branches.
extractFromText(fullText, batchNumber, batchWeight, fileName) ==
    afterRomaneioHVI(IF isRomaneioHVI(fullText)
                     THEN extractRomaneioHVI(fullText, batchNumber, batchWeight, fileName)
                     ELSE <<>>,
                     fullText, batchNumber, batchWeight, fileName,
                     isG4CottonFormat(fullText), Test(qtdFardosWithAvgPattern, fullText))

textOfPdf(fullText, fileName) ==
    extractFromText(fullText, extractBatchNumber(fullText, fileName),
                    weightAfterRomaneio(fullText), fileName)

\* extractDataFromPDF on the text of a readable PDF: the one record returned.
\* The branches are tried in order; a branch that returns nothing leaves its
\* assignments to numberOfBales and batchWeight to the later ones.
extractDataFromPDF(pages, fileName) == textOfPdf(fullTextOf(pages), fileName)

\* ------------------------------------------------------------------------
\* Output assembler (generateExcel)
\* The blob is the workbook written: its sheet name, the table wsData (a
\* header row followed by one row of strings per record) and the column
\* widths.
\* ------------------------------------------------------------------------

hasSCIOf(data) == \E k \in DOMAIN data : data[k].sciAvg # <<>> /\ isPositive(data[k].sciAvg[1])

fixedOrNA(v, digits) == IF v > 0 THEN toFixed(v, digits) ELSE <<"N","/","A">>

outputHeaders(hasSCI) ==
    << <<"L","o","t","e"," ","(","B","a","t","c","h",")">>, <<"P","e","s","o"," ","T","o","t","a","l"," ","(","k","g",")">>, <<"Q","t","d"," ","F","a","r","d","o","s">>,
       <<"M","i","c"," ","(","m","i","n",")">>, <<"M","i","c"," ","(","m","é","d","i","a",")">>, <<"M","i","c"," ","(","m","a","x",")">>,
       <<"U","H","M"," ","(","m","i","n",")">>, <<"U","H","M"," ","(","m","é","d","i","a",")">>, <<"U","H","M"," ","(","m","a","x",")">>,
       <<"S","t","r"," ","(","m","i","n",")">>, <<"S","t","r"," ","(","m","é","d","i","a",")">>, <<"S","t","r"," ","(","m","a","x",")">> >>
    \o (IF hasSCI THEN << <<"S","C","I"," ","(","m","é","d","i","a",")">> >> ELSE <<>>)
    \o << <<"A","r","q","u","i","v","o"," ","O","r","i","g","e","m">> >>

\* `avg > 0 ? avg.toFixed(digits) : "N/A"` on a double
fixedAvgOrNA(avg, digits) ==
    IF isPositive(avg) THEN toFixed(toThousandths(avg), digits) ELSE <<"N","/","A">>

outputRow(row, hasSCI) ==
    << row.batchNumber, row.batchWeight, row.numberOfBales,
       fixedOrNA(row.micMin, 2), fixedAvgOrNA(row.micAvg, 2), fixedOrNA(row.micMax, 2),
       fixedOrNA(row.uhmMin, 3), fixedAvgOrNA(row.uhmAvg, 3), fixedOrNA(row.uhmMax, 3),
       fixedOrNA(row.strMin, 1), fixedAvgOrNA(row.strAvg, 1), fixedOrNA(row.strMax, 1) >>
    \o (IF hasSCI
        THEN << IF row.sciAvg # <<>> THEN fixedAvgOrNA(row.sciAvg[1], 1)
                ELSE <<"N","/","A">> >>
        ELSE <<>>)
    \o << row.sourceFile >>

outputColWidthsWithSci(hasSCI) ==
    <<15, 14, 12, 10, 12, 10, 10, 12, 10, 10, 12, 10, 12, 35>>

outputColWidths(hasSCI) ==
    <<15, 14, 12, 10, 12, 10, 10, 12, 10, 10, 12, 10>>
    \o (IF hasSCI THEN <<12>> ELSE <<>>) \o <<35>>

generateExcel(data) ==
    LET hasSCI == hasSCIOf(data)
    IN  [sheetName |-> <<"R","e","s","u","m","o"," ","L","o","t","e","s">>,
         wsData |-> <<outputHeaders(hasSCI)>> \o [k \in DOMAIN data |-> outputRow(data[k], hasSCI)],
         cols |-> outputColWidths(hasSCI)]

\* ------------------------------------------------------------------------
\* Input documents
\* A File is [name, thrown, sheets, pages].  thrown = <<>>: the library reads
\* the bytes; thrown = <<m>>: XLSX.read / getDocument throws an Error with
\* message m.  sheets is the workbook's sheet list, pages the PDF's page
\* texts.
\* ------------------------------------------------------------------------

Workbook(name, sheets) == [name |-> name, thrown |-> <<>>, sheets |-> sheets, pages |-> <<>>]

Pdf(name, pages) == [name |-> name, thrown |-> <<>>, sheets |-> <<>>, pages |-> pages]

Unreadable(name, message) == [name |-> name, thrown |-> <<message>>, sheets |-> <<>>, pages |-> <<>>]

Sheet(name, rows) == [name |-> name, readable |-> TRUE, rows |-> rows]

BrokenSheet(name) == [name |-> name, readable |-> FALSE, rows |-> <<>>]

\* Bounds of the generated inputs
MaxRows == 2

MaxFiles == 3

\* Header rows of the generated sheets: id column, Mic, UHM, Res, and a last
\* column SCI, weight or bale count.
HdrLot == << Str(<<"L","o","t","e">>), Str(<<"M","i","c">>), Str(<<"U","H","M">>), Str(<<"R","e","s">>), Str(<<"S","C","I">>) >>

HdrFardo == << Str(<<"F","a","r","d","o">>), Str(<<"M","i","c">>), Str(<<"U","H","M">>), Str(<<"R","e","s">>), Str(<<"L","í","q","u","i","d","o">>) >>

HdrCodigo == << Str(<<"C","ó","d","i","g","o">>), Str(<<"M","i","c">>), Str(<<"L","e","n">>), Str(<<"S","t","r">>), Str(<<"S","C","I">>) >>

HdrQtd == << Str(<<"Q","t","d"," ","F","a","r","d","o","s">>), Str(<<"M","i","c">>), Str(<<"U","H","M">>), Str(<<"R","e","s">>), Str(<<"P","e","s","o">>) >>

HdrLotQtde == << Str(<<"L","o","t","e">>), Str(<<"M","i","c">>), Str(<<"U","H","M">>), Str(<<"R","e","s">>), Str(<<"Q","t","d","e">>) >>

HeaderRows == {HdrLot, HdrFardo, HdrCodigo, HdrQtd, HdrLotQtde}

\* Data rows of the generated sheets
DataRows ==
    { << Str(<<"5">>), Num(4100), Num(1180), Num(30400), Num(130000) >>,
      << Str(<<"5">>), Str(<<"4",",","3">>), Num(30500), Num(31000), Num(0) >>,
      << Str(<<"7">>), Num(0), Num(0), Num(0), Num(0) >>,
      << Str(<<"7">>), Num(0), Num(0), Num(-1000), Num(0) >>,
      << Str(<<"7">>), Num(3900), Num(0), Num(0), Num(212000) >>,
      << Str(<<"M","é","d","i","a">>), Num(4200), Num(1190), Num(30500), Num(130000) >>,
      << Str(<<"0","0","0","7","8","9","8","7","7","7","0","5","1","0","0","0","0","0","5">>), Num(4400), Num(29000), Num(29500), Num(0) >>,
      << Str(<<"1","2">>), Num(4000) >> }

RowSeqs == UNION {[1..n -> DataRows] : n \in 0..MaxRows}

\* A lot of three bales with the same readings
RepeatedRows == {<<r, r, r>> : r \in DataRows}

GeneratedSheets ==
    {Sheet(<<"P","l","a","n","1">>, <<h>> \o rs) : h \in HeaderRows, rs \in RowSeqs \cup RepeatedRows}

\* Sheets of the multi-sheet workbooks
GoodRows == << HdrLot, << Str(<<"5">>), Num(4100), Num(1180), Num(30400), Num(130000) >> >>

MoreRows == << HdrLot, << Str(<<"8">>), Num(4500), Num(28000), Num(29000), Num(0) >>,
               << Str(<<"9">>), Num(3800), Num(1100), Num(27000), Num(0) >> >>

NamedSheets ==
    { Sheet(<<"R","e","s","u","m","o">>, GoodRows), Sheet(<<"D","a","d","o","s"," ","H","V","I">>, MoreRows), Sheet(<<"P","l","a","n","1">>, GoodRows),
      Sheet(<<"P","l","a","n","2">>, <<HdrLot>>), Sheet(<<"T","o","t","a","i","s">>, MoreRows), BrokenSheet(<<"P","l","a","n","3">>),
      BrokenSheet(<<"a","n","a","l","i","t","i","c","o">>),
      Sheet(<<"R","e","s","u","m","o"," ","H","V","I">>, MoreRows) }

XlsxName == <<"h","v","i"," ","b","l","c"," ","1","2",".","x","l","s","x">>

GeneratedWorkbooks ==
    {Workbook(XlsxName, <<s>>) : s \in GeneratedSheets}
    \cup {Workbook(<<"f","a","z","e","n","d","a",".","X","L","S">>, <<p[1], p[2]>>) :
           p \in {q \in NamedSheets \X NamedSheets : q[1].name # q[2].name}}
    \cup {Workbook(<<"v","a","z","i","o",".","x","l","s","x">>, <<>>)}

\* PDF texts: a first page made of a heading and a summary, then one page per
\* bale row.
MaxBalePages == 2

PdfHeads ==
    { <<>>,
      <<"R","o","m","a","n","e","i","o"," ","c","o","m"," ","H","V","I"," ","P","i","l","h","a","/","L","o","t","e",":"," ","3"," ","P","e","s","o"," ","d","o"," ","L","o","t","e",":"," ","2","7","9","0","1",",","5"," ">>,
      <<"P","i","l","h","a","/","L","o","t","e",":"," ","4"," ","U","H","M"," ","M","I","C"," ","R","E","S"," ">>,
      <<"G","4"," ","C","O","T","T","O","N"," ","R","o","m","a","n","e","i","o"," ","1","2"," ">>,
      <<"S","i","a","g","r","i"," ","A","L","G","O","D","O","E","I","R","A"," ">>,
      <<"G","4"," ","C","O","T","T","O","N"," ","P","i","l","h","a","/","L","o","t","e",":"," ","4"," ","M","I","C"," ","R","E","S"," ","-"," ","M","é","d","i","a"," ","-"," ","3","0",",","4","8"," ","1",",","2","0"," ","4",",","2"," ","8","2",",","4","2"," ","3","0",",","7","8"," ","6",",","7","6"," ","1","3","8"," ","2","2","7","9"," ">> }

PdfSummaries ==
    { <<>>,
      <<"-"," ","M","é","d","i","a"," ","-"," ","3","0",",","4","8"," ","1",",","2","0"," ","4",",","2"," ","8","2",",","4","2"," ","3","0",",","7","8"," ","6",",","7","6"," ","1","3","8"," ","2","2","7","9">>,
      <<"-"," ","M","é","d","i","a"," ","-"," ","0",",","0","0"," ","0",",","0","0"," ","0",",","0","0"," ","0",",","0","0"," ","0",",","0","0"," ","0",",","0","0">>,
      <<"Q","t","d"," ","F","a","r","d","o","s"," ","1","1","0"," ","0",",","5","2"," ","1",",","1","4"," ","8","2",",","2","2"," ","9",",","1","5"," ","3","0",",","3","7"," ","6",",","4","2"," ","4",",","1","2">>,
      <<"Q","t","d"," ","F","a","r","d","o","s"," ","1","1","0"," ","0",",","5","2"," ","1",",","1","4"," ","8","2",",","2","2"," ","9",",","1","5"," ","3","0",",","3","7"," ","6",",","4","2"," ","0",",","0","0">>,
      <<"Q","t","d"," ","F","a","r","d","o","s"," ","2">>,
      <<"-"," ","M","é","d","i","a"," ","-"," ","3","0",",","4","8"," ","1",",","2","0"," ","4",",","2"," ","8","2",",","4","2"," ","3","0",",","7","8"," ","6",",","7","6"," ","1","3","8"," ","1","5","0"," ","2","2","7","9"," ","1","2","0">>,
      <<"-"," ","M","é","d","i","a"," ","-"," ","3","0",",","4","8"," ","1",",","2","0"," ","4",",","2"," ","8","2",",","4","2"," ","3","0",",","7","8"," ","6",",","7","6"," ","1","3","8"," ","7","8",",","5">>,
      <<"M","é","d","i","a",":"," ","4",",","2"," ","1",",","1","8"," ","3","0",",","5"," ","1","4","0">> }

BaleRows ==
    { <<"0","0","0","7","8","9","8","7","7","7","0","5","1","0","0","0","0","0","5"," ","2","1","2",",","0","0"," ","3","1","-","4"," ","0",",","5","2"," ","1",",","1","4"," ","8","2",",","2"," ","9",",","1"," ","3","0",",","4"," ","6",",","4"," ","4",",","1","2"," ","7","5",",","1"," ","8","8">>,
      <<"0","0","0","7","8","9","8","7","7","7","0","5","1","0","0","0","0","0","6"," ","2","1","2",",","0","0"," ","1",",","1","6"," ","2","9",",","6">>,
      <<"0","0","0","7","8","9","8","7","7","7","0","5","1","0","0","0","0","0","7"," ","2","1","5",",","0","0"," ","1"," ","2"," ","3"," ","1",",","1","6"," ","8","0",",","1"," ","7",",","5"," ","2","9",",","8"," ","6",",","1"," ","4",",","0","5">> }

BalePages == UNION {[1..n -> BaleRows] : n \in 0..MaxBalePages}

PdfName == <<"l","o","t","e","_","1","2",".","p","d","f">>

GeneratedPdfs == {Pdf(PdfName, <<h \o s>> \o bs) : h \in PdfHeads, s \in PdfSummaries, bs \in BalePages}

\* Documents of the multi-document batches
BatchDocs ==
    { Workbook(<<"a",".","x","l","s","x">>, <<Sheet(<<"P","l","a","n","1">>, GoodRows)>>),
      Workbook(<<"d","o","i","s",".","x","l","s","x">>, <<Sheet(<<"P","l","a","n","1">>, GoodRows), Sheet(<<"P","l","a","n","4">>, MoreRows)>>),
      Workbook(<<"f","a","z","e","n","d","a",".","x","l","s">>, <<Sheet(<<"D","a","d","o","s"," ","H","V","I">>, MoreRows), BrokenSheet(<<"a","n","a","l","i","t","i","c","o">>)>>),
      Workbook(<<"v","a","z","i","o",".","x","l","s","x">>, <<Sheet(<<"P","l","a","n","2">>, <<HdrLot>>)>>),
      Pdf(<<"r","o","m","a","n","e","i","o"," ","3",".","p","d","f">>,
          <<<<"R","o","m","a","n","e","i","o"," ","c","o","m"," ","H","V","I"," ","P","i","l","h","a","/","L","o","t","e",":"," ","3"," ","-"," ","M","é","d","i","a"," ","-"," ","3","0",",","4","8"," ","1",",","2","0"," ","4",",","2"," ","8","2",",","4","2"," ","3","0",",","7","8"," ","6",",","7","6"," ","1","3","8"," ","2","2","7","9">>>>),
      Pdf(<<"R","E","L","A","T","O","R","I","O",".","P","D","F">>, <<<<"n","a","d","a"," ","a","q","u","i">>>>),
      Unreadable(<<"q","u","e","b","r","a","d","o",".","p","d","f">>, <<"I","n","v","a","l","i","d"," ","P","D","F"," ","s","t","r","u","c","t","u","r","e",".">>),
      Unreadable(<<"n","o","t","a","s",".","t","x","t">>, <<>>) }

\* Workbooks of one lot, named after lot 5: bale number, net weight, Mic, UHM, Res.
HdrFardoLiquido == << Str(<<"F","a","r","d","o">>), Str(<<"L","í","q","u","i","d","o">>), Str(<<"M","i","c">>), Str(<<"U","H","M">>), Str(<<"R","e","s">>) >>

LotFiveRows ==
    { << Str(<<"1">>), Num(212000), Num(4100), Num(1180), Num(30400) >>,
      << Str(<<"2">>), Num(212000), Num(4300), Num(1200), Num(31000) >> }

LotFiveName == <<"l","o","t","e","_","5",".","x","l","s","x">>

LotFiveWorkbooks ==
    {Workbook(LotFiveName, <<Sheet(<<"P","l","a","n","1">>, <<HdrFardoLiquido>> \o rs)>>) :
        rs \in UNION {[1..n -> LotFiveRows] : n \in 1..MaxRows}}

\* Workbooks with a lot column and a bale column, the lot a long code or not.
HdrLotFardo == << Str(<<"L","o","t","e">>), Str(<<"F","a","r","d","o">>), Str(<<"M","i","c">>), Str(<<"U","H","M">>), Str(<<"R","e","s">>) >>

LotFardoRows ==
    { << Str(<<"0","0","0","7","8","9","8","7","7","7","0","5","1","0","0","0","0","0","5">>), Str(<<"1">>), Num(4400), Num(29000), Num(29500) >>,
      << Str(<<"5">>), Str(<<"2">>), Num(4100), Num(1180), Num(30400) >> }

LotFardoWorkbooks ==
    {Workbook(XlsxName, <<Sheet(<<"P","l","a","n","1">>, <<HdrLotFardo>> \o rs)>>) :
        rs \in UNION {[1..n -> LotFardoRows] : n \in 1..MaxRows}}

\* PDF texts whose bale rows carry an identifier of 15 digits: a heading,
\* the line of averages, then one page per bale row.
MediaLine == <<"-"," ","M","é","d","i","a"," ","-"," ","3","0",",","4","8"," ","1",",","2","0"," ","4",",","2"," ","8","2",",","4","2"," ","3","0",",","7","8"," ","6",",","7","6"," ","1","3","8"," ","2","2","7","9">>

ShortCodeRow == <<"0","0","0","7","8","9","8","7","7","7","0","5","1","0","5"," ","2","1","2",",","0","0"," ","0",",","5","2"," ","1",",","1","4"," ","8","2",",","2"," ","9",",","1"," ","3","0",",","4"," ","6",",","4"," ","4",",","1","2">>

ShortCodePdfs ==
    {Pdf(PdfName, <<h \o MediaLine>> \o bs) :
        h \in PdfHeads, bs \in UNION {[1..n -> {ShortCodeRow}] : n \in 1..MaxBalePages}}

\* PDF texts of one page with the line of the bale total and weight, with
\* or without a weight in Kg after it.
FardosLine == <<"1","3","8"," ","F","a","r","d","o","s"," ","2","7",".","9","0","1">>

PesoKgLine == <<" ","P","e","s","o",":"," ","2","7",".","5","0","0"," ","K","g">>

FardosLinePdfs ==
    {Pdf(PdfName, <<h \o FardosLine \o p>>) : h \in PdfHeads, p \in {<<>>, PesoKgLine}}

\* PDF texts of a Romaneio com HVI heading of the G4 COTTON layout without
\* the line of averages, and of the G4 COTTON heading, with or without the
\* 'Qtd Fardos' line, followed by no page, a bale code alone or a bale row.
MixedHead == <<"G","4"," ","C","O","T","T","O","N"," ","R","o","m","a","n","e","i","o"," ","c","o","m"," ","H","V","I"," ","P","e","s","o"," ","d","o"," ","L","o","t","e",":"," ","2","7","9","0","1",",","5"," ">>

G4Head == <<"G","4"," ","C","O","T","T","O","N"," ","R","o","m","a","n","e","i","o"," ","1","2"," ">>

QtdFardosLine == <<"Q","t","d"," ","F","a","r","d","o","s"," ","1","1","0"," ","0",",","5","2"," ","1",",","1","4"," ","8","2",",","2","2"," ","9",",","1","5"," ","3","0",",","3","7"," ","6",",","4","2"," ","4",",","1","2">>

BareCodeRow == <<"0","0","0","7","8","9","8","7","7","7","0","5","1","0","0","0","0","0","8">>

AbandonedPdfs ==
    {Pdf(PdfName, <<h \o q>> \o bs) :
        h \in {MixedHead, G4Head}, q \in {<<>>, QtdFardosLine},
        bs \in {<<>>, <<BareCodeRow>>} \cup {<<r>> : r \in BaleRows}}

SingleDocs ==
    GeneratedWorkbooks \cup GeneratedPdfs \cup LotFiveWorkbooks \cup LotFardoWorkbooks
    \cup ShortCodePdfs \cup FardosLinePdfs \cup AbandonedPdfs
    \cup { Unreadable(<<"p","l","a","n","i","l","h","a",".","x","l","s","x">>, <<"F","i","l","e"," ","i","s"," ","p","a","s","s","w","o","r","d","-","p","r","o","t","e","c","t","e","d">>), Unreadable(<<"R","E","A","D","M","E">>, <<>>) }

\* The batches of several documents
MultiBatches == UNION {[1..n -> BatchDocs] : n \in 0..MaxFiles}

Batches == {<<d>> : d \in SingleDocs} \cup MultiBatches

Docs == SingleDocs \cup BatchDocs

\* The extractors tabulated over the documents of the model: the records each
\* readable sheet of a workbook pushes, and the record of each readable PDF.
sheetRecords ==
    [d \in {x \in Docs : x.sheets # <<>>} |->
        [k \in DOMAIN d.sheets |->
            IF d.sheets[k].readable THEN extractSheet(d.sheets[k], d.name) ELSE <<>>]]

pdfRecord == [d \in {x \in Docs : x.pages # <<>>} |-> extractDataFromPDF(d.pages, d.name)]

\* ------------------------------------------------------------------------
\* The batch entry point (processFilesWithData), in the browser.
\*   files       the batch, in input order
\*   onProgress  whether the caller passed a progress callback
\*   pc          where the call stands: "loop" (top of the for loop),
\*               "sheets" (inside extractDataFromExcel's sheet loop),
\*               "push" (data extracted, before results.push), "progress"
\*               (before onProgress), "done" (returned), "failed" (rejected)
\*   i           the loop index, 0-based
\*   sheet       the number of sheets of sheetsToProcess already processed
\*   data        the records of the current document (extractDataFromExcel's
\*               local results, or [singleResult])
\*   results     the accumulated result list
\*   calls       the (current, total) pairs onProgress was called with
\*   reads       the 1-based positions of the files whose bytes were read
\*   error       <<>>, or <<message>> of the Error the call rejected with
\*   returned    <<>>, or <<[blob, data]>> the call resolved with
\* and the state that outlives a call:
\*   pdfjsLibPromise  the module-level promise of loadPdfJs: "null" before
\*               the first load, then "resolved" or "rejected" for good
\*   run         the number of the current call of the entry point
\*   previous    the outcomes [returned, error] of the earlier calls
\* ------------------------------------------------------------------------
VARIABLES files, onProgress, pc, i, sheet, data, results, calls, reads, error, returned,
          pdfjsLibPromise, run, previous, args, value, loader, page, store

vars == <<files, onProgress, pc, i, sheet, data, results, calls, reads, error, returned,
          pdfjsLibPromise, run, previous, args, value, loader, page, store>>

\* The overlapping calls of the loader, the page component and the data
\* route have specifications of their own; elsewhere they are absent.
elsewhere == <<loader, page, store>>

Absent == loader = <<>> /\ page = <<>> /\ store = <<>>

\* What a call of the entry point leaves alone: the caller's state, the
\* argument and value of a direct call of a helper, and what is absent.
caller == <<run, previous, args, value, loader, page, store>>

\* The state a call of the entry point starts in.
Start ==
    /\ pc = "loop"
    /\ i = 0
    /\ sheet = 0
    /\ data = <<>>
    /\ results = <<>>
    /\ calls = <<>>
    /\ reads = <<>>
    /\ error = <<>>
    /\ returned = <<>>

\* The first call after the page was loaded.
Init ==
    /\ files \in Batches
    /\ onProgress \in BOOLEAN
    /\ Start
    /\ pdfjsLibPromise = "null"
    /\ run = 1
    /\ previous = <<>>
    /\ args = <<>>
    /\ value = <<>>
    /\ Absent

\* files[i]
file == files[i + 1]

\* file.name.split('.').pop()?.toLowerCase()
extensionOf(name) == toLowerCase(SubSeq(name, lastIndexOf(name, ".") + 2, Len(name)))

isExcelName(name) == extensionOf(name) \in {<<"x","l","s","x">>, <<"x","l","s">>}

isPdfName(name) == extensionOf(name) = <<"p","d","f">>

\* A variant of the rethrown message that leaves the file name out.
failureMessageWithoutName(name, message) == <<"F","a","l","h","a"," ","a","o"," ","p","r","o","c","e","s","s","a","r",":"," ">> \o message

\* The message of the Error the catch block rethrows.
failureMessage(name, message) == <<"F","a","l","h","a"," ","a","o"," ","p","r","o","c","e","s","s","a","r"," ">> \o name \o <<":"," ">> \o message

\* A variant of the catch block that records the failure and goes on with the
\* next file.
ThrowAndContinue(message) ==
    /\ error' = <<failureMessage(file.name, message)>>
    /\ pc' = "loop"
    /\ i' = i + 1

\* A throw inside the try block: the catch block rejects the call.
Throw(message) ==
    /\ error' = <<failureMessage(file.name, message)>>
    /\ pc' = "failed"
    /\ i' = i

\* The position in workbook.SheetNames of the k-th sheet of sheetsToProcess.
sheetIndex(sheets, k) ==
    CHOOSE j \in DOMAIN sheets : sheets[j].name = sheetsToProcess(sheets)[k].name

\* else branch: the extension is none of xlsx, xls, pdf
Unsupported ==
    /\ pc = "loop" /\ i < Len(files)
    /\ ~isExcelName(file.name) /\ ~isPdfName(file.name)
    /\ Throw(<<"F","o","r","m","a","t","o"," ","n","ã","o"," ","s","u","p","o","r","t","a","d","o",":"," ">> \o extensionOf(file.name))
    /\ UNCHANGED <<caller, pdfjsLibPromise, files, onProgress, sheet, data, results, calls, reads, returned>>

\* loadPdfJs as extractDataFromPDF awaits it: the cached promise, or a new one
\* that the script load resolves.
loaded(name) ==
    IF isPdfName(name) THEN pdfjsLibPromise # "rejected" /\ pdfjsLibPromise' = "resolved"
    ELSE UNCHANGED pdfjsLibPromise

\* loadPdfJs rejects: the cached promise was rejected, or the script of a new
\* one fails to load.
LoadFails ==
    /\ pc = "loop" /\ i < Len(files)
    /\ isPdfName(file.name)
    /\ pdfjsLibPromise # "resolved"
    /\ pdfjsLibPromise' = "rejected"
    /\ Throw(<<"F","a","i","l","e","d"," ","t","o"," ","l","o","a","d"," ","P","D","F",".","j","s"," ","f","r","o","m"," ","C","D","N">>)
    /\ UNCHANGED <<caller, files, onProgress, sheet, data, results, calls, reads, returned>>

\* XLSX.read or pdfjs.getDocument throws on the bytes read
ReadFails ==
    /\ pc = "loop" /\ i < Len(files)
    /\ isExcelName(file.name) \/ isPdfName(file.name)
    /\ file.thrown # <<>>
    /\ loaded(file.name)
    /\ reads' = Append(reads, i + 1)
    /\ Throw(file.thrown[1])
    /\ UNCHANGED <<caller, files, onProgress, sheet, data, results, calls, returned>>

\* extractDataFromExcel up to the sheet loop
OpenWorkbook ==
    /\ pc = "loop" /\ i < Len(files)
    /\ isExcelName(file.name)
    /\ file.thrown = <<>>
    /\ reads' = Append(reads, i + 1)
    /\ data' = <<>>
    /\ sheet' = 0
    /\ pc' = "sheets"
    /\ UNCHANGED <<caller, pdfjsLibPromise, files, onProgress, i, results, calls, error, returned>>

\* A variant of the sheet loop that pushes the records of a sheet onto the
\* accumulated result list as well.
ProcessSheetIntoResults ==
    /\ pc = "sheets" /\ sheet < Len(sheetsToProcess(file.sheets))
    /\ sheetsToProcess(file.sheets)[sheet + 1].readable
    /\ data' = data \o sheetRecords[file][sheetIndex(file.sheets, sheet + 1)]
    /\ results' = results \o sheetRecords[file][sheetIndex(file.sheets, sheet + 1)]
    /\ sheet' = sheet + 1
    /\ UNCHANGED <<caller, pdfjsLibPromise, files, onProgress, pc, i, calls, reads, error, returned>>

\* One iteration of the sheet loop
ProcessSheet ==
    /\ pc = "sheets" /\ sheet < Len(sheetsToProcess(file.sheets))
    /\ sheetsToProcess(file.sheets)[sheet + 1].readable
    /\ data' = data \o sheetRecords[file][sheetIndex(file.sheets, sheet + 1)]
    /\ sheet' = sheet + 1
    /\ UNCHANGED <<caller, pdfjsLibPromise, files, onProgress, pc, i, results, calls, reads, error, returned>>

\* An iteration of the sheet loop that throws
SheetFails ==
    /\ pc = "sheets" /\ sheet < Len(sheetsToProcess(file.sheets))
    /\ ~sheetsToProcess(file.sheets)[sheet + 1].readable
    /\ Throw(<<"C","a","n","n","o","t"," ","r","e","a","d"," ","p","r","o","p","e","r","t","i","e","s"," ","o","f"," ","u","n","d","e","f","i","n","e","d">>)
    /\ UNCHANGED <<caller, pdfjsLibPromise, files, onProgress, sheet, data, results, calls, reads, returned>>

\* A variant of extractDataFromExcel that returns the empty list.
ReturnEmpty ==
    /\ pc = "sheets" /\ sheet = Len(sheetsToProcess(file.sheets))
    /\ Len(data) = 0
    /\ pc' = "push"
    /\ UNCHANGED <<caller, pdfjsLibPromise, files, onProgress, i, sheet, data, results, calls, reads, error, returned>>

\* results.length === 0 after the sheet loop
NoDataFound ==
    /\ pc = "sheets" /\ sheet = Len(sheetsToProcess(file.sheets))
    /\ Len(data) = 0
    /\ Throw(<<"N","e","n","h","u","m"," ","d","a","d","o"," ","e","n","c","o","n","t","r","a","d","o"," ","n","o"," ","a","r","q","u","i","v","o"," ","E","x","c","e","l",":"," ">> \o file.name)
    /\ UNCHANGED <<caller, pdfjsLibPromise, files, onProgress, sheet, data, results, calls, reads, returned>>

\* return results
ReturnExcel ==
    /\ pc = "sheets" /\ sheet = Len(sheetsToProcess(file.sheets))
    /\ Len(data) # 0
    /\ pc' = "push"
    /\ UNCHANGED <<caller, pdfjsLibPromise, files, onProgress, i, sheet, data, results, calls, reads, error, returned>>

\* data = [await extractDataFromPDF(file)]
ExtractPDF ==
    /\ pc = "loop" /\ i < Len(files)
    /\ isPdfName(file.name)
    /\ file.thrown = <<>>
    /\ loaded(file.name)
    /\ reads' = Append(reads, i + 1)
    /\ data' = <<pdfRecord[file]>>
    /\ pc' = "push"
    /\ UNCHANGED <<caller, files, onProgress, i, sheet, results, calls, error, returned>>

\* results.push(...data)
PushResults ==
    /\ pc = "push"
    /\ results' = results \o data
    /\ pc' = "progress"
    /\ UNCHANGED <<caller, pdfjsLibPromise, files, onProgress, i, sheet, data, calls, reads, error, returned>>

\* A variant that reports the loop index in place of the count.
ReportProgressIndex ==
    /\ pc = "progress"
    /\ calls' = IF onProgress THEN Append(calls, <<i, Len(files)>>) ELSE calls
    /\ i' = i + 1
    /\ pc' = "loop"
    /\ UNCHANGED <<caller, pdfjsLibPromise, files, onProgress, sheet, data, results, reads, error, returned>>

\* onProgress?.(i + 1, files.length), then i++
ReportProgress ==
    /\ pc = "progress"
    /\ calls' = IF onProgress THEN Append(calls, <<i + 1, Len(files)>>) ELSE calls
    /\ i' = i + 1
    /\ pc' = "loop"
    /\ UNCHANGED <<caller, pdfjsLibPromise, files, onProgress, sheet, data, results, reads, error, returned>>

\* After the loop: the blob is generated and the call resolves.
Render ==
    /\ pc = "loop" /\ i = Len(files)
    /\ returned' = <<[blob |-> generateExcel(results), data |-> results]>>
    /\ pc' = "done"
    /\ UNCHANGED <<caller, pdfjsLibPromise, files, onProgress, i, sheet, data, results, calls, reads, error>>

Next ==
    \/ Unsupported
    \/ LoadFails
    \/ ReadFails
    \/ OpenWorkbook
    \/ ProcessSheet
    \/ SheetFails
    \/ NoDataFound
    \/ ReturnExcel
    \/ ExtractPDF
    \/ PushResults
    \/ ReportProgress
    \/ Render

Spec == Init /\ [][Next]_vars

\* ------------------------------------------------------------------------
\* The entry point called again in the same page (handleProcess, once per
\* click on the button), with the same files.
\* ------------------------------------------------------------------------

\* Bound on the number of calls
MaxRuns == 2

\* What a finished call leaves to its caller.
outcome == [returned |-> returned, error |-> error]

\* A variant in which the result list outlives the call.
AgainWithSharedResults ==
    /\ pc \in {"done", "failed"} /\ run < MaxRuns
    /\ previous' = Append(previous, outcome)
    /\ run' = run + 1
    /\ pc' = "loop" /\ i' = 0 /\ sheet' = 0 /\ data' = <<>>
    /\ calls' = <<>> /\ reads' = <<>> /\ error' = <<>> /\ returned' = <<>>
    /\ UNCHANGED <<results, pdfjsLibPromise, files, onProgress, args, value, elsewhere>>

\* The next call: its locals start afresh, the module-level promise stays.
Again ==
    /\ pc \in {"done", "failed"} /\ run < MaxRuns
    /\ previous' = Append(previous, outcome)
    /\ run' = run + 1
    /\ pc' = "loop" /\ i' = 0 /\ sheet' = 0 /\ data' = <<>> /\ results' = <<>>
    /\ calls' = <<>> /\ reads' = <<>> /\ error' = <<>> /\ returned' = <<>>
    /\ UNCHANGED <<pdfjsLibPromise, files, onProgress, args, value, elsewhere>>

\* Any state of the loader an earlier call on other files may have left.
RerunInit ==
    /\ files \in MultiBatches
    /\ onProgress \in BOOLEAN
    /\ Start
    /\ pdfjsLibPromise \in {"null", "resolved", "rejected"}
    /\ run = 1
    /\ previous = <<>>
    /\ args = <<>>
    /\ value = <<>>
    /\ Absent

RerunNext == Next \/ Again

RerunSpec == RerunInit /\ [][RerunNext]_vars

\* ------------------------------------------------------------------------
\* The helpers called directly: one call of calculateStats,
\* parseNumericValue or normalizeUhmToInches on an argument, value holding
\* what it returns.
\* ------------------------------------------------------------------------

MaxValues == 4

MaxTokenLen == 5

MaxLength == 35000

StatValues == {NegInfinity, 0 - Unit, 0, NaN, 5 * Unit, 4100, 4300, Infinity}

TokenChars == {"1", "2", ",", ".", "-", "x"}

TokenExamples ==
    { <<"1",".","2","3","4",",","5","6">>, <<"1",",","2","3","4",".","5","6">>, <<"-","1",".","2","3","4",",","5","6">>, <<"3","0",",","5">>,
           <<"1","2",".","3","4","5",",","6">>, <<"1","2","3",",","4","5","6",".","7">>, <<"n","/","a">> }

Lengths == (0 - Unit)..MaxLength

\* The header cells of the direct calls of findColumnIndex
HeaderCells ==
    { Null, Str(<<>>), Str(<<"L","o","t","e">>), Str(<<"P","e","s","o"," ","L","o","t","e">>), Str(<<" ","M","I","C"," ","(">>), Str(<<"L","o">>), Str(<<"F","a","r","d","o">>), Str(<<"L","í","q","u","i","d","o"," ","[","k","g","]">>) }

MaxHeaders == 3

FieldTypes == {"lot", "weight", "mic", "bale"}

\* A call: the helper called and its argument, a list of numbers, a string,
\* a number, or a header row and a field type.
Call(f, values, token, length, headers) ==
    [f |-> f, values |-> values, token |-> token, length |-> length, headers |-> headers]

isCall(a) ==
    \/ \E n \in 0..MaxValues : \E vs \in [1..n -> StatValues] : a = Call("calculateStats", vs, <<>>, 0, <<>>)
    \/ \E n \in 0..MaxTokenLen : \E s \in [1..n -> TokenChars] : a = Call("parseNumericValue", <<>>, s, 0, <<>>)
    \/ \E s \in TokenExamples : a = Call("parseNumericValue", <<>>, s, 0, <<>>)
    \/ \E v \in Lengths : a = Call("normalizeUhmToInches", <<>>, <<>>, v, <<>>)
    \/ \E n \in 0..MaxHeaders : \E hs \in [1..n -> HeaderCells] : \E f \in FieldTypes :
          a = Call("findColumnIndex", <<>>, f, 0, hs)

UnitInit ==
    /\ isCall(args)
    /\ value = <<>>
    /\ pc = "call"
    /\ files = <<>>
    /\ onProgress = FALSE
    /\ i = 0
    /\ sheet = 0
    /\ data = <<>>
    /\ results = <<>>
    /\ calls = <<>>
    /\ reads = <<>>
    /\ error = <<>>
    /\ returned = <<>>
    /\ pdfjsLibPromise = "null"
    /\ run = 1
    /\ previous = <<>>
    /\ Absent

Return(v) ==
    /\ value' = <<v>>
    /\ pc' = "returned"
    /\ UNCHANGED <<args, files, onProgress, i, sheet, data, results, calls, reads, error,
                   returned, pdfjsLibPromise, run, previous, elsewhere>>

CallCalculateStats ==
    /\ pc = "call"
    /\ args.f = "calculateStats"
    /\ Return(calculateStats(args.values))

CallParseNumericValue ==
    /\ pc = "call"
    /\ args.f = "parseNumericValue"
    /\ Return(parseNumericValue(Str(args.token)))

CallNormalizeUhmToInches ==
    /\ pc = "call"
    /\ args.f = "normalizeUhmToInches"
    /\ Return(normalizeUhmToInches(args.length))

\* findColumnIndex(headers, fieldType) on the header row as the callers pass
\* it, a null cell as the empty string
CallFindColumnIndex ==
    /\ pc = "call"
    /\ args.f = "findColumnIndex"
    /\ Return(findColumnIndex(rowAsStrings(args.headers), args.token))

UnitNext ==
    \/ CallCalculateStats
    \/ CallParseNumericValue
    \/ CallNormalizeUhmToInches
    \/ CallFindColumnIndex

UnitSpec == UnitInit /\ [][UnitNext]_vars

\* ------------------------------------------------------------------------
\* Properties of the batch entry point
\* ------------------------------------------------------------------------

\* The complete record list of a document that is extracted without a throw.
docRecords(d) ==
    IF isPdfName(d.name) THEN <<pdfRecord[d]>>
    ELSE Flatten([k \in 1..Len(sheetsToProcess(d.sheets)) |->
                     sheetRecords[d][sheetIndex(d.sheets, k)]])

\* The concatenation of the record lists of documents 1..k, in input order.
recordsOfFirst(k) == Flatten([j \in 1..k |-> docRecords(files[j])])

\* The documents the loop body gets through: a supported extension, bytes that
\* open, every processed sheet readable and, for a spreadsheet, a record.
extractsCleanly(d) ==
    /\ isExcelName(d.name) \/ isPdfName(d.name)
    /\ d.thrown = <<>>
    /\ isExcelName(d.name) =>
          /\ \A k \in DOMAIN sheetsToProcess(d.sheets) : sheetsToProcess(d.sheets)[k].readable
          /\ docRecords(d) # <<>>

\* C1: a document that cannot be processed (an unsupported extension above
\* all) makes the batch call reject with one error whose message names that
\* document, and nothing is returned; a batch that returns had only documents
\* that could be processed.
C1_FailedDocumentRejectsBatch ==
    /\ Len(error) <= 1
    /\ (pc = "failed") = (error # <<>>)
    /\ error # <<>> =>
          /\ ~extractsCleanly(file) \/ (isPdfName(file.name) /\ pdfjsLibPromise = "rejected")
          /\ includes(error[1], file.name)
          /\ returned = <<>>
    /\ returned # <<>> => \A k \in DOMAIN files : extractsCleanly(files[k])

\* A batch of three rejected at its second document, whose extension is txt,
\* after the first document contributed records.
C1_Witness ==
    /\ pc = "failed" /\ Len(files) = 3 /\ i = 1
    /\ extensionOf(file.name) = <<"t","x","t">>
    /\ results # <<>>
    /\ includes(error[1], file.name)
    /\ returned = <<>>

\* C2: processing is sequential and stops at the first failure: when document
\* k fails, no later document has been read and none is read afterwards (the
\* rejection is the last step), and a progress callback has been invoked
\* exactly k - 1 times, never with a count of k or more.
C2_FailureStopsTheBatch ==
    [][ /\ error = <<>>
        /\ error' # <<>> =>
              /\ \A r \in DOMAIN reads' : reads'[r] <= i' + 1
              /\ onProgress => (Len(calls') = i' /\ \A c \in DOMAIN calls' : calls'[c][1] <= i')
      ]_vars

\* A batch of three with a callback, rejected at its second document: one
\* invocation, documents 1 and 2 read, document 3 untouched.
C2_Witness ==
    /\ pc = "failed" /\ Len(files) = 3 /\ i = 1
    /\ onProgress
    /\ calls = << <<1, 3>> >>
    /\ reads = <<1, 2>>

\* C3: the k-th invocation of the progress callback has the arguments
\* (k, N); it happens when the records of document k are already in the
\* result list and document k + 1 has not been started; a call that returns
\* has made exactly the invocations (1, N) .. (N, N), the last of them before
\* the output was rendered.
C3_ProgressAfterEachDocument ==
    [][ /\ calls' # calls =>
              /\ calls' = Append(calls, <<Len(calls) + 1, Len(files)>>)
              /\ results = recordsOfFirst(Len(calls'))
              /\ \A r \in DOMAIN reads : reads[r] <= Len(calls')
              /\ returned = <<>> /\ returned' = <<>>
        /\ (returned' # <<>> /\ onProgress) =>
              calls = [k \in 1..Len(files) |-> <<k, Len(files)>>]
      ]_vars

\* A batch of three with a callback that returned.
C3_Witness ==
    /\ pc = "done" /\ onProgress /\ Len(files) = 3
    /\ calls = << <<1, 3>>, <<2, 3>>, <<3, 3>> >>
    /\ returned # <<>>

\* C4: the accumulated result list is always the concatenation of the
\* complete record lists of the documents processed so far, in input order:
\* it is empty before the first document, it grows only by the complete
\* record list of the current document once that document is extracted, a
\* document that raises leaves it as it was (even a spreadsheet whose earlier
\* sheets had produced records), and it is the list returned.
C4_ResultsAreWholeDocuments ==
    [][ /\ (i = 0 /\ pc # "progress") => results = <<>>
        /\ (pc = "push") => (pc' = "progress" /\ results' = results \o docRecords(file))
        /\ (pc # "push") => results' = results
        /\ returned' # <<>> => (returned'[1].data = results /\ i = Len(files))
      ]_vars

\* A spreadsheet that raised in a later sheet after an earlier sheet had
\* produced records, in a batch whose earlier document contributed records.
C4_Witness ==
    /\ pc = "failed" /\ isExcelName(file.name)
    /\ data # <<>>
    /\ results # <<>>

\* C10: a spreadsheet whose processed sheets yield no record at all makes
\* the extraction raise an error naming the file; a spreadsheet extraction
\* that returns, returns at least one record.
C10_EmptySpreadsheetRaises ==
    [][ /\ (pc = "sheets" /\ sheet = Len(sheetsToProcess(file.sheets)) /\ docRecords(file) = <<>>) =>
              /\ pc' = "failed"
              /\ error' # <<>> /\ includes(error'[1], file.name)
              /\ results' = results /\ returned' = <<>>
        /\ (pc' = "push" /\ isExcelName(file.name)) =>
              (Len(data') >= 1 /\ data' = docRecords(file))
      ]_vars

\* A workbook whose sheet has a header row and data rows, none of them with a
\* value, rejected after its sheet loop ran to the end.
C10_Witness ==
    /\ pc = "failed" /\ isExcelName(file.name) /\ file.thrown = <<>>
    /\ sheet >= 1 /\ sheet = Len(sheetsToProcess(file.sheets))
    /\ Len(file.sheets[1].rows) >= 2
    /\ includes(error[1], file.name)

\* ------------------------------------------------------------------------
\* Properties of the records
\* ------------------------------------------------------------------------

\* The records a state holds: those of the current document and the
\* accumulated ones.
recordsInHand == data \o results

\* A record with no quality sample: micronaire, length and strength all 0.
withoutSamples(r) ==
    /\ r.micMin = 0 /\ r.micAvg = Zero /\ r.micMax = 0
    /\ r.uhmMin = 0 /\ r.uhmAvg = Zero /\ r.uhmMax = 0
    /\ r.strMin = 0 /\ r.strAvg = Zero /\ r.strMax = 0

\* C5: no record is emitted whose micronaire, length and strength
\* statistics are all 0, whichever extractor produced it.
C5_NoRecordWithoutSamples ==
    \A k \in DOMAIN results : ~withoutSamples(results[k])

\* C6: the sciAvg of every record is null or a strictly positive number,
\* never 0 (and never a value that fails `> 0`).
C6_SciNullOrPositive ==
    \A k \in DOMAIN recordsInHand :
        recordsInHand[k].sciAvg = <<>> \/ isPositive(recordsInHand[k].sciAvg[1])

\* A sheet with an SCI column whose lots have no SCI value gave null, and a
\* PDF summary line with the SCI gave a positive average.
C6_Witness ==
    /\ \E k \in DOMAIN results :
          results[k].extractor \in {"grouped", "aggregated", "raw"} /\ results[k].sciAvg = <<>>
    /\ \E k \in DOMAIN results :
          results[k].extractor = "A" /\ results[k].sciAvg # <<>> /\ isPositive(results[k].sciAvg[1])

\* Two inches, the largest length of a source value of 50.8 mm.
TwoInches == 2 * Unit

\* C7: the fiber length statistics of the records of the three spreadsheet
\* extractors are in inches: no length above 2 for the source lengths of
\* the model, none of which exceeds 50.8.
C7_SpreadsheetLengthInInches ==
    \A k \in DOMAIN results :
        results[k].extractor \in {"grouped", "aggregated", "raw"} =>
            /\ results[k].uhmMin <= TwoInches
            /\ LessEq(results[k].uhmAvg, toDouble(TwoInches))
            /\ results[k].uhmMax <= TwoInches

\* 0 < min <= avg <= max, or the 0, 0, 0 of an empty list
orderedOrEmpty(min, avg, max) ==
    \/ min = 0 /\ avg = Zero /\ max = 0
    \/ 0 < min /\ LessEq(toDouble(min), avg) /\ LessEq(avg, toDouble(max))

orderedFields(r, checkMic, checkUhm, checkStr) ==
    /\ checkMic => orderedOrEmpty(r.micMin, r.micAvg, r.micMax)
    /\ checkUhm => orderedOrEmpty(r.uhmMin, r.uhmAvg, r.uhmMax)
    /\ checkStr => orderedOrEmpty(r.strMin, r.strAvg, r.strMax)

orderedRowScan(r, acc) ==
    orderedFields(r, Len(acc.micValues) > 0, Len(acc.uhmValues) > 0, Len(acc.strValues) > 0)

\* C8: every min/avg/max triple that calculateStats computes from one
\* non-empty list (grouped and raw sheets, format B without the summary
\* line, format C, the row scan of format D) satisfies 0 < min <= avg <= max.
C8_StatsOrdered ==
    pc = "push" =>
        \A k \in DOMAIN data :
            /\ data[k].extractor \in {"grouped", "raw", "B-bales", "C"} =>
                  orderedFields(data[k], TRUE, TRUE, TRUE)
            /\ data[k].extractor = "D-rows" =>
                  orderedRowScan(data[k], rowScan(fullTextOf(file.pages)))

\* ------------------------------------------------------------------------
\* Properties of the PDF classification
\* ------------------------------------------------------------------------

\* The format an extractor tag belongs to.
formatOf(r) ==
    IF r.extractor \in {"B-summary", "B-bales"} THEN "B"
    ELSE IF r.extractor \in {"D-labels", "D-rows"} THEN "D"
    ELSE r.extractor

\* The first format, in the order A, B, C, D, whose detection condition the
\* text satisfies; D has no condition.
firstDetected(fullText) ==
    IF isRomaneioHVI(fullText) THEN "A"
    ELSE IF isG4CottonFormat(fullText) THEN "B"
    ELSE IF isSiagri(fullText) THEN "C"
    ELSE "D"

\* The extraction of a format succeeds on a text it detects: format A finds
\* its Média line, format B its summary line or a bale with a value, format C
\* a bale with a value.
succeedsA(fullText) == isRomaneioHVI(fullText) /\ Test(mediaLinePattern, fullText)

succeedsB(fullText) ==
    /\ isG4CottonFormat(fullText)
    /\ \/ Test(qtdFardosWithAvgPattern, fullText)
       \/ anyValues(readBalesG4(fullText, balePositionsOf(fullText), 1, 8, emptyLists))

succeedsC(fullText) == isSiagri(fullText) /\ anyValues(siagriLists(fullText))

\* The first format, in the order A, B, C, D, that detects the text and
\* extracts a record from it; D takes every text the others leave.
firstSuccessful(fullText) ==
    IF succeedsA(fullText) THEN "A"
    ELSE IF succeedsB(fullText) THEN "B"
    ELSE IF succeedsC(fullText) THEN "C"
    ELSE "D"

\* C9 as stated: the record of a PDF comes from the extractor of the first
\* format, in the order A, B, C, D, whose detection condition the text
\* satisfies (D exactly when none of A, B, C is detected).
C9_FirstDetectedWins ==
    (pc = "push" /\ isPdfName(file.name)) =>
        formatOf(data[1]) = firstDetected(fullTextOf(file.pages))

\* C9, amended: the record of a PDF comes from the extractor of the first
\* format, in the order A, B, C, D, whose detection condition the text
\* satisfies and whose extraction finds its data; D takes exactly the texts
\* on which none of A, B, C did both.
C9_FirstSuccessfulWins ==
    (pc = "push" /\ isPdfName(file.name)) =>
        /\ Len(data) = 1
        /\ formatOf(data[1]) = firstSuccessful(fullTextOf(file.pages))

\* A text that format A detects but that has no Média line, extracted by a
\* later format.
C9_Witness ==
    /\ pc = "push" /\ isPdfName(file.name)
    /\ isRomaneioHVI(fullTextOf(file.pages))
    /\ formatOf(data[1]) # "A"

\* ------------------------------------------------------------------------
\* Properties of the grouped-by-lot extractor
\* ------------------------------------------------------------------------

\* The rows of a sheet the grouped extractor adds to the lot: rows after the
\* header row that are not skipped, carry the lot key and have a measurement.
rowsOfLot(rawData, hri, columnMap, lot) ==
    SelectSeq(SubSeq(rawData, hri + 2, Len(rawData)),
              LAMBDA row : /\ ~skippedRow(row)
                           /\ trim(cellText(row, columnMap.lot)) = lot
                           /\ ~(/\ numberAt(row, columnMap.mic, 0) = 0
                                /\ numberAt(row, columnMap.str, 0) = 0
                                /\ numberAt(row, columnMap.uhm, 0) = 0))

\* The sum of the bale-count cells of the rows; 1 per row without the column.
cellSum(rows, col) == SeqSum([k \in DOMAIN rows |-> numberAt(rows[k], col, FromInt(1))])

\* The same sum with 1 in place of every cell that is empty or 0.
cellOrOneSum(rows, col) ==
    SeqSum([k \in DOMAIN rows |->
               IF numberAt(rows[k], col, FromInt(1)) # 0
               THEN numberAt(rows[k], col, FromInt(1)) ELSE FromInt(1)])

\* The only sheet of the current workbook, its header row and its columns.
onlySheet == file.sheets[1].rows

onlyHeader == headerRowIndex(onlySheet)

onlyColumns == columnMapOf(rowAsStrings(onlySheet[onlyHeader + 1]))

\* The current document is a workbook of one sheet, extracted as grouped by lot.
groupedWorkbook ==
    /\ pc = "push" /\ isExcelName(file.name) /\ Len(file.sheets) = 1
    /\ \A k \in DOMAIN data : data[k].extractor = "grouped"

\* C11 as stated: the bale count of a grouped record is the sum of the
\* bale-count cells of the rows of its lot when the sheet has a bale-count
\* column, and the number of those rows when it has none.
C11_BaleCountIsCellSum ==
    groupedWorkbook =>
        \A k \in DOMAIN data :
            data[k].numberOfBales =
                numToString(cellSum(rowsOfLot(onlySheet, onlyHeader, onlyColumns,
                                              data[k].batchNumber),
                                    onlyColumns.baleCount))

\* C11, amended: each row of the lot contributes its bale-count cell when the
\* sheet has a bale-count column and the cell parses to a number other than
\* 0, and contributes 1 otherwise (no column, or an empty, unparsable or 0
\* cell); the bale count of the record is the sum of the contributions.
C11_BaleCountIsCellOrOneSum ==
    groupedWorkbook =>
        \A k \in DOMAIN data :
            data[k].numberOfBales =
                numToString(cellOrOneSum(rowsOfLot(onlySheet, onlyHeader, onlyColumns,
                                                   data[k].batchNumber),
                                         onlyColumns.baleCount))

\* A lot of two rows in a sheet with a bale-count column, one cell 130 and
\* the other 0: the bale count is 131.
C11_Witness ==
    /\ groupedWorkbook
    /\ onlyColumns.baleCount >= 0
    /\ \E k \in DOMAIN data :
          /\ data[k].numberOfBales = <<"1","3","1">>
          /\ Len(rowsOfLot(onlySheet, onlyHeader, onlyColumns, data[k].batchNumber)) = 2

\* ------------------------------------------------------------------------
\* Properties of repeated calls
\* ------------------------------------------------------------------------

\* C12: extraction is deterministic: the record list a call returns is
\* determined by the document list alone (it is the concatenation of the
\* record lists of the documents), whatever the number of the call and the
\* state of the module-level loader; a later call on the same list returns
\* exactly when the earlier one did, and returns the same records.
C12_SameFilesSameRecords ==
    /\ returned # <<>> => returned[1].data = recordsOfFirst(Len(files))
    /\ pc \in {"done", "failed"} =>
          \A k \in DOMAIN previous :
              /\ (returned # <<>>) = (previous[k].returned # <<>>)
              /\ returned # <<>> => returned[1].data = previous[k].returned[1].data

\* A second call that returned records, a PDF among the documents, after a
\* first call that had to load the PDF library.
C12_Witness ==
    /\ run = 2 /\ pc = "done"
    /\ Len(returned[1].data) >= 2
    /\ previous[1].returned # <<>>
    /\ pdfjsLibPromise = "resolved"
    /\ \E k \in DOMAIN files : isPdfName(files[k].name)

\* ------------------------------------------------------------------------
\* Properties of the end-to-end scenarios
\* ------------------------------------------------------------------------

\* The Mic cells of the data rows of the only sheet (third column).
micCells == [k \in 1..(Len(onlySheet) - 1) |-> onlySheet[k + 1][3].n]

\* C13: a sheet with the header row [Fardo, Líquido, Mic, UHM, Res] whose
\* data rows all belong to lot "5" gives exactly one record, for lot "5",
\* whose micronaire min, avg and max are the minimum, the arithmetic mean and
\* the maximum of the Mic cells of the rows.
C13_OneRecordForTheLot ==
    (pc = "push" /\ file.name = LotFiveName) =>
        /\ Len(data) = 1
        /\ data[1].batchNumber = <<"5">>
        /\ data[1].micMin = SeqMin(micCells)
        /\ data[1].micAvg = divideByCount(sumFrom(Zero, micCells), Len(micCells))
        /\ data[1].micMax = SeqMax(micCells)

\* The text of the document in hand, a PDF.
textInHand == fullTextOf(file.pages)

\* The numbers of the first 'Qtd Fardos N' line of a text, N first.
aggregateOf(fullText) == Match(fullText, qtdFardosWithAvgPattern)[1].caps

\* The k-th number after N, as the number parser reads it.
afterN(fullText, k) == parseNumericValue(Str(aggregateOf(fullText)[k + 1]))

summaryAverages(r, fullText) ==
    /\ r.extractor = "B-summary"
    /\ afterN(fullText, 2) > 0 => r.uhmAvg = toDouble(afterN(fullText, 2))
    /\ afterN(fullText, 5) > 0 => r.strAvg = toDouble(afterN(fullText, 5))
    /\ afterN(fullText, 7) > 0 => r.micAvg = toDouble(afterN(fullText, 7))

parsedNumbers(nums) == [k \in DOMAIN nums |-> parseNumericValue(Str(nums[k]))]

averageRow(fullText) ==
    parsedNumbers(numbersOfLine(matched(fullText, Match(fullText, mediaFullLinePattern)[1])))

\* The k-th number is in [100,180] and the next one in [2000,2500].
sciThenCsp(row, k) ==
    /\ k + 1 <= Len(row)
    /\ row[k] >= 100 * Unit /\ row[k] <= 180 * Unit
    /\ row[k + 1] >= 2000 * Unit /\ row[k + 1] <= 2500 * Unit

sciOfPair(r, row) ==
    IF \E k \in DOMAIN row : sciThenCsp(row, k)
    THEN \E k \in DOMAIN row : sciThenCsp(row, k) /\ r.sciAvg = <<toDouble(row[k])>>
    ELSE r.sciAvg = <<>>

\* C15: in format A the SCI average is the value of a number of the average
\* row that lies in [100,180] and whose next number lies in [2000,2500]; it
\* is null when the row has no such pair, and a value in [100,180] that is
\* not followed by one in [2000,2500] is never taken.
C15_SciIsBeforeCsp ==
    (pc = "push" /\ isPdfName(file.name) /\ data[1].extractor = "A") =>
        sciOfPair(data[1], averageRow(textInHand))

C15_Witness ==
    /\ pc = "push" /\ isPdfName(file.name) /\ data[1].extractor = "A"
    /\ data[1].sciAvg = <<toDouble(150 * Unit)>>
    /\ \E k \in DOMAIN averageRow(textInHand) :
           /\ averageRow(textInHand)[k] = 138 * Unit
           /\ ~sciThenCsp(averageRow(textInHand), k)

\* ------------------------------------------------------------------------
\* Properties of the helpers called directly
\* ------------------------------------------------------------------------

\* The elements of a list that are positive, not NaN and finite.
validOf(values) ==
    SelectSeq(values, LAMBDA v : v \notin {NaN, Infinity, NegInfinity} /\ v > 0)

RECURSIVE exactSum(_)
exactSum(values) == IF values = <<>> THEN 0 ELSE Head(values) + exactSum(Tail(values))

\* avg is the arithmetic mean of the list, to the thousandth.
isMeanOf(avg, values) ==
    /\ toThousandths(avg) * Len(values) >= exactSum(values) - Len(values)
    /\ toThousandths(avg) * Len(values) <= exactSum(values) + Len(values)

statsOf(stats, valid) ==
    IF valid = <<>> THEN stats = [min |-> 0, avg |-> Zero, max |-> 0]
    ELSE /\ stats.min \in {valid[k] : k \in DOMAIN valid}
         /\ \A k \in DOMAIN valid : stats.min <= valid[k] /\ valid[k] <= stats.max
         /\ stats.max \in {valid[k] : k \in DOMAIN valid}
         /\ isMeanOf(stats.avg, valid)

\* C16: calculateStats gives {0,0,0} when no element is positive and finite,
\* and otherwise the minimum, the arithmetic mean and the maximum of exactly
\* the elements that are positive, not NaN and finite.
C16_StatsOfValidValues ==
    (pc = "returned" /\ args.f = "calculateStats") =>
        statsOf(value[1], validOf(args.values))

C16_Witness ==
    /\ pc = "returned" /\ args.f = "calculateStats"
    /\ args.values = <<0 - Unit, 0, NaN, 5 * Unit>>
    /\ value[1] = [min |-> 5 * Unit, avg |-> toDouble(5 * Unit), max |-> 5 * Unit]

\* A numeral: digits, commas and periods after an optional leading minus,
\* with a digit among them.
isNumeral(s) ==
    /\ \E k \in DOMAIN s : s[k] \in Digits
    /\ \A k \in DOMAIN s : s[k] \in Digits \cup {",", "."} \/ (k = 1 /\ s[k] = "-")

positionsOf(s, c) == {k \in DOMAIN s : s[k] = c}

lastOf(s, c) == CHOOSE k \in positionsOf(s, c) : \A j \in positionsOf(s, c) : j <= k

\* The separator of a numeral with both that occurs later.
laterSeparator(s) == IF lastOf(s, ",") > lastOf(s, ".") THEN "," ELSE "."

digitsOf(s) == SelectSeq(s, LAMBDA c : c \in Digits)

\* The number a numeral denotes when position p holds its decimal separator
\* and every other separator groups digits.
denoted(s, p) ==
    (IF s[1] = "-" THEN 0 - 1 ELSE 1)
    * (DigitsValue(digitsOf(SubSeq(s, 1, p - 1))) * Unit
       + FractionValue(digitsOf(SubSeq(s, p + 1, Len(s)))))

readsAsDecimal(s, c, v) ==
    Cardinality(positionsOf(s, c)) = 1 => v = denoted(s, lastOf(s, c))

\* C17: of a numeral with both a comma and a period, the separator that
\* occurs later is the decimal separator and every occurrence of the other
\* one is dropped; of a numeral with commas only, the comma is the decimal
\* separator (the decimal separator of a numeral occurs in it once); a token
\* that holds no number gives 0, and every call returns a number.
C17_LaterSeparatorIsDecimal ==
    (pc = "returned" /\ args.f = "parseNumericValue") =>
        /\ value[1] \in Int
        /\ (isNumeral(args.token) /\ positionsOf(args.token, ",") # {}
                /\ positionsOf(args.token, ".") # {}) =>
              readsAsDecimal(args.token, laterSeparator(args.token), value[1])
        /\ (isNumeral(args.token) /\ positionsOf(args.token, ",") # {}
                /\ positionsOf(args.token, ".") = {}) =>
              readsAsDecimal(args.token, ",", value[1])
        /\ digitsOf(args.token) = <<>> => value[1] = 0

C17_Witness ==
    /\ pc = "returned" /\ args.f = "parseNumericValue"
    /\ args.token = <<"1",".","2","3","4",",","5","6">>
    /\ value[1] = 1234 * Unit + 560

\* q is v / 25.4 to the thousandth below.
isOver254(q, v) == q * 254 <= v * 10 /\ v * 10 < (q + 1) * 254

\* C18: normalizeUhmToInches gives 0 for every v <= 0, v itself for every
\* 0 < v <= 2, and v / 25.4 for every v > 2: the millimetre test is v > 2.
C18_InchesOfLength ==
    (pc = "returned" /\ args.f = "normalizeUhmToInches") =>
        /\ args.length <= 0 => value[1] = 0
        /\ (0 < args.length /\ args.length <= 2 * Unit) => value[1] = args.length
        /\ args.length > 2 * Unit => isOver254(value[1], args.length)

C18_Witness ==
    /\ pc = "returned" /\ args.f = "normalizeUhmToInches"
    /\ args.length = 2 * Unit + 1
    /\ value[1] = 78

\* ------------------------------------------------------------------------
\* Properties of the rendered table
\* ------------------------------------------------------------------------

NotAvailable == <<"N","/","A">>

SciHeader == <<"S","C","I"," ","(","m","é","d","i","a",")">>

hasSciColumn(table) == \E c \in DOMAIN table[1] : table[1][c] = SciHeader

tableWidth(table) == IF hasSciColumn(table) THEN 14 ELSE 13

anySci(records) ==
    \E k \in DOMAIN records : records[k].sciAvg # <<>> /\ isPositive(records[k].sciAvg[1])

\* The row of a record: its lot first, its source file last, and the marker
\* in the place of every measurement that is not greater than 0.
rowOfRecord(row, r, withSci) ==
    /\ row[1] = r.batchNumber
    /\ row[Len(row)] = r.sourceFile
    /\ r.micMin <= 0 => row[4] = NotAvailable
    /\ ~isPositive(r.micAvg) => row[5] = NotAvailable
    /\ r.micMax <= 0 => row[6] = NotAvailable
    /\ r.uhmMin <= 0 => row[7] = NotAvailable
    /\ ~isPositive(r.uhmAvg) => row[8] = NotAvailable
    /\ r.uhmMax <= 0 => row[9] = NotAvailable
    /\ r.strMin <= 0 => row[10] = NotAvailable
    /\ ~isPositive(r.strAvg) => row[11] = NotAvailable
    /\ r.strMax <= 0 => row[12] = NotAvailable
    /\ (withSci /\ (r.sciAvg = <<>> \/ ~isPositive(r.sciAvg[1]))) => row[13] = NotAvailable

renders(blob, records) ==
    /\ hasSciColumn(blob.wsData) = anySci(records)
    /\ Len(blob.cols) = tableWidth(blob.wsData)
    /\ \A k \in DOMAIN blob.wsData : Len(blob.wsData[k]) = tableWidth(blob.wsData)
    /\ Len(blob.wsData) = Len(records) + 1
    /\ \A k \in DOMAIN records :
          rowOfRecord(blob.wsData[k + 1], records[k], hasSciColumn(blob.wsData))

\* C19: the rendered table has the SCI column exactly when a record of the
\* batch has a positive SCI average; its header row, its data rows and its
\* column widths have one length, 13 without the column and 14 with it; it
\* has one data row per record, in the order of the result list; and every
\* measurement that is not greater than 0 shows as N/A.
C19_TableOfTheBatch ==
    returned # <<>> => renders(returned[1].blob, returned[1].data)

C19_Witness ==
    /\ returned # <<>>
    /\ tableWidth(returned[1].blob.wsData) = 14
    /\ \E j, k \in 2..Len(returned[1].blob.wsData) :
          /\ j < k
          /\ returned[1].blob.wsData[j][13] = NotAvailable
          /\ returned[1].blob.wsData[k][13] # NotAvailable
          /\ returned[1].blob.wsData[k][1] # returned[1].blob.wsData[j][1]

\* ------------------------------------------------------------------------
\* Properties of the record of format B
\* ------------------------------------------------------------------------

\* The samples of the bales of a text, a bale counting when its segment
\* holds at least minNumbers numbers.
perBale(fullText, minNumbers) ==
    readBalesG4(fullText, balePositionsOf(fullText), 1, minNumbers, emptyLists)

meanOf(samples) == divideByCount(sumFrom(Zero, samples), Len(samples))

\* min and max are the least and the greatest sample, or the summary number
\* when there is no sample.
endsOfBales(min, max, samples, n) ==
    IF samples = <<>> THEN min = n /\ max = n
    ELSE min = SeqMin(samples) /\ max = SeqMax(samples)

sciOfBales(sciAvg, samples) ==
    IF samples = <<>> THEN sciAvg = <<>> ELSE sciAvg = <<meanOf(samples)>>

summaryOrMean(avg, samples, n) ==
    IF n > 0 THEN avg = toDouble(n)
    ELSE IF samples = <<>> THEN avg = Zero
    ELSE avg = meanOf(samples)

allOfBales(min, avg, max, samples) ==
    IF samples = <<>> THEN min = 0 /\ avg = Zero /\ max = 0
    ELSE min = SeqMin(samples) /\ avg = meanOf(samples) /\ max = SeqMax(samples)

endsAndSciOfBales(r, acc, fullText) ==
    /\ endsOfBales(r.micMin, r.micMax, acc.micValues, afterN(fullText, 7))
    /\ endsOfBales(r.uhmMin, r.uhmMax, acc.uhmValues, afterN(fullText, 2))
    /\ endsOfBales(r.strMin, r.strMax, acc.strValues, afterN(fullText, 5))
    /\ sciOfBales(r.sciAvg, acc.sciValues)

averagesOfSummary(r, fullText) ==
    /\ r.micAvg = toDouble(afterN(fullText, 7))
    /\ r.uhmAvg = toDouble(afterN(fullText, 2))
    /\ r.strAvg = toDouble(afterN(fullText, 5))

averagesOfSummaryOrBales(r, acc, fullText) ==
    /\ summaryOrMean(r.micAvg, acc.micValues, afterN(fullText, 7))
    /\ summaryOrMean(r.uhmAvg, acc.uhmValues, afterN(fullText, 2))
    /\ summaryOrMean(r.strAvg, acc.strValues, afterN(fullText, 5))

recordOfBales(r, acc) ==
    /\ allOfBales(r.micMin, r.micAvg, r.micMax, acc.micValues)
    /\ allOfBales(r.uhmMin, r.uhmAvg, r.uhmMax, acc.uhmValues)
    /\ allOfBales(r.strMin, r.strAvg, r.strMax, acc.strValues)
    /\ sciOfBales(r.sciAvg, acc.sciValues)

\* C20 as stated: with the summary line, the averages of a format B record
\* are the numbers of the summary line, and its min, max and SCI average come
\* from the bales (min and max being the summary average only when no bale
\* gave a sample); without the summary line, min, avg and max all come from
\* the bales.
C20_AveragesOfSummary ==
    (pc = "push" /\ isPdfName(file.name)) =>
        /\ data[1].extractor = "B-summary" =>
              /\ averagesOfSummary(data[1], textInHand)
              /\ endsAndSciOfBales(data[1], perBale(textInHand, 10), textInHand)
        /\ data[1].extractor = "B-bales" => recordOfBales(data[1], perBale(textInHand, 8))

\* C20, amended: as stated, but an average is the number of the summary
\* line only when that number is greater than 0, and the mean of the bales'
\* samples otherwise.
C20_AveragesOfSummaryWhenPositive ==
    (pc = "push" /\ isPdfName(file.name)) =>
        /\ data[1].extractor = "B-summary" =>
              /\ averagesOfSummaryOrBales(data[1], perBale(textInHand, 10), textInHand)
              /\ endsAndSciOfBales(data[1], perBale(textInHand, 10), textInHand)
        /\ data[1].extractor = "B-bales" => recordOfBales(data[1], perBale(textInHand, 8))

\* A summary line whose micronaire is 0 gave the mean of the bales, and its
\* strength average lies above the greatest sample.
C20_Witness ==
    /\ pc = "push" /\ isPdfName(file.name)
    /\ data[1].extractor = "B-summary"
    /\ afterN(textInHand, 7) = 0
    /\ isPositive(data[1].micAvg)
    /\ Less(toDouble(data[1].strMax), data[1].strAvg)

\* ------------------------------------------------------------------------
\* Properties of the spreadsheet extractors
\* ------------------------------------------------------------------------

\* The sheet the sheet loop is at.
sheetInHand == sheetsToProcess(file.sheets)[sheet + 1]

headerInHand == rowAsStrings(sheetInHand.rows[headerRowIndex(sheetInHand.rows) + 1])

hasLotColumn == findColumnIndex(headerInHand, "lot") >= 0

hasBaleColumn == findColumnIndex(headerInHand, "bale") >= 0

hasBaleCountColumn == findColumnIndex(headerInHand, "baleCount") >= 0

firstDataCellIsLongBaleCode ==
    firstCellIsLongBaleCode(sheetInHand.rows, headerRowIndex(sheetInHand.rows))

\* The one extractor of a record, by the four tests of the sheet.
chosenBy(extractor, lot, bale, baleCount, longCode) ==
    /\ extractor \in {"grouped", "aggregated", "raw"}
    /\ extractor = "grouped" <=> (lot /\ (bale \/ ~longCode))
    /\ extractor = "aggregated" <=>
          (~(lot /\ (bale \/ ~longCode)) /\ baleCount /\ ~lot /\ ~longCode)

\* C21: every record a sheet with a header row pushes comes from one
\* extractor: grouped by lot iff the sheet has a lot column and (a bale column
\* or a first data cell that is no long bale code); otherwise already
\* aggregated iff it has a bale-count column, no lot column and a first data
\* cell that is no long bale code; otherwise raw per bale.
C21_OneExtractorPerSheet ==
    [][(pc = "sheets" /\ sheet' = sheet + 1 /\ Len(data') > Len(data)) =>
          \A k \in (Len(data) + 1)..Len(data') :
              chosenBy(data'[k].extractor, hasLotColumn, hasBaleColumn,
                       hasBaleCountColumn, firstDataCellIsLongBaleCode)]_vars

\* A sheet with a lot column and a bale column whose first data cell is a
\* long bale code was grouped by lot.
C21_Witness ==
    /\ pc = "push" /\ isExcelName(file.name)
    /\ Len(file.sheets) = 1 /\ onlySheet[1] = HdrLotFardo
    /\ firstCellIsLongBaleCode(onlySheet, 0)
    /\ data # <<>> /\ data[1].extractor = "grouped"

----------------------------------------------------------------------------
\* Properties of the bale codes of PDF texts

\* Two zeros followed by 13 or more digits, anywhere in the text
fifteenDigitCodes(fullText) == MatchAll(fullText, Lit(<<"0","0">>) \o <<AtLeast(Digits, 13)>>)

\* C22: the bale count of a record of format A, and of format B with its
\* summary line, is the number of identifiers of the text made of two zeros
\* and 13 or more digits, whenever the text has such an identifier.
C22_BaleCountOfFifteenDigitCodes ==
    pc = "push" =>
        \A k \in DOMAIN data :
            (data[k].extractor \in {"A", "B-summary"} /\ fifteenDigitCodes(textInHand) # <<>>) =>
                data[k].numberOfBales = NatToString(Len(fifteenDigitCodes(textInHand)))

\* A Romaneio text with one bale row of a 15-digit identifier whose record
\* has no bale count.
C22_ShortCodeNotCounted ==
    /\ pc = "push" /\ data # <<>> /\ data[1].extractor = "A"
    /\ Len(fifteenDigitCodes(textInHand)) = 1
    /\ data[1].numberOfBales = <<"N","/","A">>

----------------------------------------------------------------------------
\* Properties of the bale total and weight of the generic path

\* The first match of 'XXX Fardos YYY.YYY' in the text
fardosLineOf(fullText) == Match(fullText, balesWithWeightPattern)

\* C23: a record of the generic path whose text has a line 'XXX Fardos
\* YYY.YYY' carries the bale count XXX and the weight YYY.YYY of that line,
\* the first pattern of the list: no later pattern overwrites them.
C23_FirstBalesPatternWins ==
    pc = "push" =>
        \A k \in DOMAIN data :
            (data[k].extractor \in {"D-labels", "D-rows"} /\ fardosLineOf(textInHand) # <<>>) =>
                /\ data[k].numberOfBales = fardosLineOf(textInHand)[1].caps[1]
                /\ data[k].batchWeight =
                      replaceFirst(fardosLineOf(textInHand)[1].caps[2], ",", <<".">>)

\* The text '138 Fardos 27.901' gave a record of 27 bales.
C23_CountOverwritten ==
    /\ pc = "push" /\ file.pages = <<FardosLine>>
    /\ data # <<>> /\ data[1].numberOfBales = <<"2","7">>
    /\ data[1].batchWeight = <<"2","7",".","9","0","1">>

----------------------------------------------------------------------------
\* Properties of findColumnIndex

\* The normalized headers and the aliases of the call in hand
headersInHand == [k \in DOMAIN args.headers |-> normalizeHeader(rowAsStrings(args.headers)[k])]

aliasesInHand == COLUMN_ALIASES[args.token]

isAlias(h, aliases) == \E k \in DOMAIN aliases : h = aliases[k]

containsOrContained(h, aliases) ==
    h # <<>> /\ \E k \in DOMAIN aliases : includes(h, aliases[k]) \/ includes(aliases[k], h)

\* The index returned for the headers hs: of a header equal to an alias when
\* there is one, else of a non-empty header that contains an alias or is
\* contained in one, else -1.
exactBeforePartial(index, hs, aliases) ==
    /\ index \in -1..(Len(hs) - 1)
    /\ (\E k \in DOMAIN hs : isAlias(hs[k], aliases)) => (index >= 0 /\ isAlias(hs[index + 1], aliases))
    /\ index >= 0 => (isAlias(hs[index + 1], aliases) \/ containsOrContained(hs[index + 1], aliases))
    /\ index >= 0 => hs[index + 1] # <<>>
    /\ index = -1 <=>
          ~ \E k \in DOMAIN hs : isAlias(hs[k], aliases) \/ containsOrContained(hs[k], aliases)

\* C24: findColumnIndex returns the index of a header equal to an alias of
\* the field whenever there is one, whatever partial match stands before it;
\* a substring match only when no header equals an alias; never the index of
\* an empty or null header; and -1 iff no header matches in either pass.
C24_ExactBeforePartial ==
    (pc = "returned" /\ args.f = "findColumnIndex") =>
        exactBeforePartial(value[1], headersInHand, aliasesInHand)

\* 'Peso Lote' contains the alias 'lote', 'Lote' equals it: index 1.
C24_Witness ==
    /\ pc = "returned" /\ args.f = "findColumnIndex" /\ args.token = "lot"
    /\ Len(args.headers) = 2
    /\ containsOrContained(headersInHand[1], aliasesInHand) /\ ~isAlias(headersInHand[1], aliasesInHand)
    /\ isAlias(headersInHand[2], aliasesInHand)
    /\ value = <<1>>

----------------------------------------------------------------------------
\* Properties of the lot identifier of a PDF

\* The patterns of a list that match a text, as indices of the list
matching(patterns, t) == {k \in DOMAIN patterns : Match(t, patterns[k]) # <<>>}

Least(S) == CHOOSE k \in S : \A j \in S : k <= j

firstCapture(patterns, S, t) == Match(t, patterns[Least(S)])[1].caps[1]

\* The fallback chain: the text, then the file name, then 'N/A'.
fallbackChain(batchNumber, inText, inName, text, name) ==
    /\ batchNumber # <<>>
    /\ inText # {} => batchNumber = firstCapture(batchTextPatterns, inText, text)
    /\ (inText = {} /\ inName # {}) => batchNumber = firstCapture(batchFilenamePatterns, inName, name)
    /\ (inText = {} /\ inName = {}) => batchNumber = <<"N","/","A">>

\* C25: the lot identifier of the record of a PDF is the first capture group
\* of the first label pattern, in list order, that matches the text; the
\* first file name pattern that matches the name only if no label pattern
\* matches the text; 'N/A' only if neither matches; never the empty string.
C25_LotIdentifierFallbackChain ==
    (pc = "push" /\ isPdfName(file.name)) =>
        \A k \in DOMAIN data :
            fallbackChain(data[k].batchNumber,
                          matching(batchTextPatterns, textInHand),
                          matching(batchFilenamePatterns, file.name),
                          textInHand, file.name)

\* A PDF whose text has no lot label took the lot of its file name.
C25_Witness ==
    /\ pc = "push" /\ isPdfName(file.name) /\ data # <<>>
    /\ matching(batchTextPatterns, textInHand) = {}
    /\ matching(batchFilenamePatterns, file.name) # {}
    /\ data[1].batchNumber = <<"1","2">>

\* A PDF whose text and file name both name a lot took the lot of the text.
C25_TextBeforeName ==
    /\ pc = "push" /\ isPdfName(file.name) /\ data # <<>>
    /\ Cardinality(matching(batchTextPatterns, textInHand)) > 1
    /\ matching(batchFilenamePatterns, file.name) # {}
    /\ data[1].batchNumber = <<"3">>

----------------------------------------------------------------------------
\* Properties of the sheet selection

detailNamed(s) == someKeyword(preferredSheetKeywords, s.name)

summaryNamed(s) == someKeyword(summarySheetKeywords, s.name)

\* The sheets of the workbook in hand and those of them that are processed
allSheets == file.sheets

processed == sheetsToProcess(file.sheets)

\* One sheet: that sheet.  Several sheets: the detail-named ones when there
\* is one, else the ones not summary-named when there is one, else all.
selectionRules(sheets, chosen) ==
    /\ Len(sheets) = 1 => chosen = sheets
    /\ (Len(sheets) > 1 /\ \E k \in DOMAIN sheets : detailNamed(sheets[k])) =>
          chosen = SelectSeq(sheets, detailNamed)
    /\ (Len(sheets) > 1 /\ \A k \in DOMAIN sheets : ~detailNamed(sheets[k])) =>
          chosen = IF \A k \in DOMAIN sheets : summaryNamed(sheets[k]) THEN sheets
                   ELSE SelectSeq(sheets, LAMBDA s : ~summaryNamed(s))
    /\ Len(sheets) >= 1 => chosen # <<>>

\* No summary-named sheet is chosen while a detail-named sheet that is not
\* summary-named exists.
noSummaryBesideDetail(sheets, chosen) ==
    \A k \in DOMAIN chosen :
        summaryNamed(chosen[k]) =>
            ~ \E j \in DOMAIN sheets : detailNamed(sheets[j]) /\ ~summaryNamed(sheets[j])

\* C26: the sheets of a workbook that are processed follow the selection
\* rules, are never none, and include no summary-named sheet while a
\* detail-named sheet that is not summary-named exists.
C26_SheetSelection ==
    (pc = "sheets" /\ sheet = 0) =>
        /\ selectionRules(allSheets, processed)
        /\ noSummaryBesideDetail(allSheets, processed)

\* The selection rules alone
C26_SelectionRules ==
    (pc = "sheets" /\ sheet = 0) => selectionRules(allSheets, processed)

\* The sheet 'Resumo HVI' was processed beside the sheet 'Dados HVI'.
C26_SummarySheetProcessed ==
    /\ pc = "push" /\ Len(allSheets) = 2
    /\ summaryNamed(allSheets[1]) /\ detailNamed(allSheets[2]) /\ ~summaryNamed(allSheets[2])
    /\ processed = allSheets
    /\ Len(data) > 2

----------------------------------------------------------------------------
\* Properties of the abandoned attempts of the PDF extraction

\* A layout is abandoned on a text that no earlier layout returned a record
\* for, that it detects and that it finds no values in.
abandonedA(fullText) == isRomaneioHVI(fullText) /\ ~Test(mediaLinePattern, fullText)

abandonedB(fullText) ==
    ~succeedsA(fullText) /\ isG4CottonFormat(fullText) /\ ~succeedsB(fullText)

abandonedC(fullText) ==
    ~succeedsA(fullText) /\ ~succeedsB(fullText) /\ isSiagri(fullText) /\ ~succeedsC(fullText)

\* The weight the attempt of format A assigns before it looks for the Média
\* line, the total of the bale weights the attempt of format C assigns after
\* it, and the bale count the attempts of formats B and C assign before they
\* read the bales, format C after format B.
lotWeight(fullText) ==
    IF isRomaneioHVI(fullText) /\ Test(pesoLotePattern, fullText)
    THEN replaceFirst(Match(fullText, pesoLotePattern)[1].caps[1], ",", <<".">>)
    ELSE <<"N","/","A">>

abandonedWeight(fullText) ==
    IF abandonedC(fullText) /\ Len(siagriLists(fullText).weightValues) > 0
    THEN toFixed(SeqSum(siagriLists(fullText).weightValues), 2)
    ELSE lotWeight(fullText)

abandonedCount(fullText) ==
    IF isSiagri(fullText) THEN Match(fullText, siagriPattern)[1].caps[1]
    ELSE IF isG4CottonFormat(fullText) /\ Len(MatchAll(fullText, baleCodePattern)) > 0
         THEN NatToString(Len(MatchAll(fullText, baleCodePattern)))
         ELSE <<"N","/","A">>

\* The steps of the Generic path that assign a weight or a bale count
laterWeight(fullText) ==
    Test(balesWithWeightPattern, fullText) \/ Test(pesoKgPattern, fullText)

laterCount(fullText) ==
    \/ Test(balesWithWeightPattern, fullText)
    \/ Test(fardosPattern, fullText)
    \/ Test(qtdFardosPattern, fullText)

\* The record r of the Generic path keeps what the abandoned attempts
\* assigned and no later step overwrote.
keptInGeneric(r, fullText) ==
    /\ ~laterWeight(fullText) => r.batchWeight = abandonedWeight(fullText)
    /\ (~laterCount(fullText) /\ abandonedCount(fullText) # <<"N","/","A">>) =>
          r.numberOfBales = abandonedCount(fullText)

\* C27 as stated: one record per PDF, and a text on which a detected layout
\* is abandoned ends in the Generic path.
C27_AbandonedEndsInGeneric ==
    (pc = "push" /\ isPdfName(file.name)) =>
        /\ Len(data) = 1
        /\ (abandonedA(textInHand) \/ abandonedB(textInHand) \/ abandonedC(textInHand)) =>
              formatOf(data[1]) = "D"

\* C27, amended: one record per PDF, of one extractor; after an abandoned
\* attempt the record comes from the first later layout that is detected
\* and finds its values, from the Generic path when there is none; and the
\* record of the Generic path keeps the weight and the bale count of the
\* abandoned attempts unless a later step assigns them.
C27_AbandonedFallsThrough ==
    (pc = "push" /\ isPdfName(file.name)) =>
        /\ Len(data) = 1
        /\ data[1].extractor \in {"A", "B-summary", "B-bales", "C", "D-labels", "D-rows"}
        /\ abandonedA(textInHand) =>
              formatOf(data[1]) =
                  IF succeedsB(textInHand) THEN "B"
                  ELSE IF succeedsC(textInHand) THEN "C" ELSE "D"
        /\ abandonedB(textInHand) =>
              formatOf(data[1]) = IF succeedsC(textInHand) THEN "C" ELSE "D"
        /\ abandonedC(textInHand) => formatOf(data[1]) = "D"
        /\ formatOf(data[1]) = "D" => keptInGeneric(data[1], textInHand)

\* Formats A and B were abandoned on a text with a lot weight and one bale
\* code: the record of the Generic path has that weight and one bale.
C27_Witness ==
    /\ pc = "push" /\ file.pages = <<MixedHead, BareCodeRow>>
    /\ abandonedA(textInHand) /\ abandonedB(textInHand)
    /\ Len(data) = 1 /\ formatOf(data[1]) = "D"
    /\ data[1].batchWeight = <<"2","7","9","0","1",".","5">>
    /\ data[1].numberOfBales = <<"1">>

----------------------------------------------------------------------------
\* Overlapping calls of loadPdfJs in the browser: the extractions of PDFs
\* that await the library, each calling again for a later PDF.  loader holds
\* the script elements appended to the document (scripts), whether
\* window.pdfjsLib is defined (lib), the identity of the promise held in
\* pdfjsLibPromise (id, 0 for null) and the number of promises constructed
\* (created), the reason of a rejection, and for each caller the promise it
\* received (got), whether that promise was pending when it received it
\* (early), its position (at) and the number of its calls; log lists the
\* settled awaits in order.  pdfjsLibPromise is the state of the promise held.

MaxCallers == 3

MaxCallsEach == 2

Callers == 1..MaxCallers

NotFoundAfterLoading == <<"P","D","F",".","j","s"," ","l","i","b","r","a","r","y"," ","n","o","t"," ","f","o","u","n","d"," ","a","f","t","e","r"," ","l","o","a","d","i","n","g">>

FailedToLoad == <<"F","a","i","l","e","d"," ","t","o"," ","l","o","a","d"," ","P","D","F",".","j","s"," ","f","r","o","m"," ","C","D","N">>

\* What the loader calls, the page component and the data route leave alone.
processor ==
    <<files, onProgress, pc, i, sheet, data, results, calls, reads, error, returned,
      run, previous, args, value>>

NoProcessor ==
    /\ files = <<>> /\ onProgress = FALSE /\ pc = "none" /\ i = 0 /\ sheet = 0
    /\ data = <<>> /\ results = <<>> /\ calls = <<>> /\ reads = <<>> /\ error = <<>>
    /\ returned = <<>> /\ run = 1 /\ previous = <<>> /\ args = <<>> /\ value = <<>>

LoadInit ==
    /\ NoProcessor
    /\ pdfjsLibPromise = "null"
    /\ \E lib \in BOOLEAN :
          loader = [scripts |-> 0, lib |-> lib, id |-> 0, created |-> 0, reason |-> <<>>,
                    got |-> [c \in Callers |-> 0], early |-> [c \in Callers |-> FALSE],
                    at |-> [c \in Callers |-> "idle"], calls |-> [c \in Callers |-> 0],
                    log |-> <<>>]
    /\ page = <<>>
    /\ store = <<>>

neverCached(id) == FALSE

\* `if (pdfjsLibPromise) return pdfjsLibPromise`
cachedPromise(id) == id # 0

\* loadPdfJs called by c: the promise held, or a new one whose executor
\* resolves it at once when window.pdfjsLib is defined and appends the script
\* element otherwise.
CallLoadPdfJs(c) ==
    /\ loader.at[c] = "idle" /\ loader.calls[c] < MaxCallsEach
    /\ IF cachedPromise(loader.id)
       THEN /\ loader' = [loader EXCEPT !.got[c] = loader.id,
                                         !.early[c] = (pdfjsLibPromise = "pending"),
                                         !.at[c] = "awaiting", !.calls[c] = @ + 1]
            /\ UNCHANGED pdfjsLibPromise
       ELSE /\ loader' = [loader EXCEPT !.created = @ + 1, !.id = loader.created + 1,
                                         !.scripts = IF loader.lib THEN @ ELSE @ + 1,
                                         !.got[c] = loader.created + 1,
                                         !.early[c] = ~loader.lib,
                                         !.at[c] = "awaiting", !.calls[c] = @ + 1]
            /\ pdfjsLibPromise' = IF loader.lib THEN "resolved" ELSE "pending"
    /\ UNCHANGED <<processor, page, store>>

\* script.onload: the library is on the window, or is not.
ScriptOnLoad ==
    /\ pdfjsLibPromise = "pending"
    /\ \/ /\ pdfjsLibPromise' = "resolved"
          /\ loader' = [loader EXCEPT !.lib = TRUE]
       \/ /\ pdfjsLibPromise' = "rejected"
          /\ loader' = [loader EXCEPT !.reason = NotFoundAfterLoading]
    /\ UNCHANGED <<processor, page, store>>

\* script.onerror
ScriptOnError ==
    /\ pdfjsLibPromise = "pending"
    /\ pdfjsLibPromise' = "rejected"
    /\ loader' = [loader EXCEPT !.reason = FailedToLoad]
    /\ UNCHANGED <<processor, page, store>>

\* `const pdfjs = await loadPdfJs()` continues, or throws the reason.
Await(c) ==
    /\ loader.at[c] = "awaiting"
    /\ pdfjsLibPromise \in {"resolved", "rejected"}
    /\ loader' = [loader EXCEPT
                      !.at[c] = IF pdfjsLibPromise = "resolved" THEN "loaded" ELSE "failed",
                      !.log = Append(@, [caller |-> c, call |-> loader.calls[c],
                                         got |-> loader.got[c], early |-> loader.early[c],
                                         scripts |-> loader.scripts,
                                         thrown |-> IF pdfjsLibPromise = "resolved" THEN <<>>
                                                    ELSE <<loader.reason>>])]
    /\ UNCHANGED <<pdfjsLibPromise, processor, page, store>>

\* The extraction of a later PDF, in this batch or a later one
NextExtraction(c) ==
    /\ loader.at[c] \in {"loaded", "failed"}
    /\ loader' = [loader EXCEPT !.at[c] = "idle"]
    /\ UNCHANGED <<pdfjsLibPromise, processor, page, store>>

LoadNext ==
    \/ \E c \in Callers : CallLoadPdfJs(c)
    \/ ScriptOnLoad
    \/ ScriptOnError
    \/ \E c \in Callers : Await(c)
    \/ \E c \in Callers : NextExtraction(c)

LoadSpec == LoadInit /\ [][LoadNext]_vars

\* C28: over all the calls of loadPdfJs at most one promise is constructed
\* and at most one script element appended, every caller receives the promise
\* held, and after a caller's await threw, every later await throws the same
\* error with no script element added.
C28_LoadedAtMostOnce ==
    /\ loader.created <= 1
    /\ loader.scripts <= 1
    /\ \A c \in Callers : loader.got[c] \in {0, loader.id}
    /\ \A k \in DOMAIN loader.log : loader.log[k].got = loader.id
    /\ \A k \in DOMAIN loader.log : \A j \in k..Len(loader.log) :
          loader.log[k].thrown # <<>> =>
              /\ loader.log[j].thrown = loader.log[k].thrown
              /\ loader.log[j].scripts = loader.log[k].scripts

\* Two callers received the promise while the script was loading, the load
\* failed, and a second call of a caller threw the same error.
C28_Witness ==
    /\ loader.scripts = 1
    /\ \E k, j \in DOMAIN loader.log :
          /\ loader.log[k].caller # loader.log[j].caller
          /\ loader.log[k].early /\ loader.log[j].early
          /\ loader.log[k].thrown = <<FailedToLoad>>
    /\ \E k \in DOMAIN loader.log :
          loader.log[k].call = 2 /\ loader.log[k].thrown = <<FailedToLoad>>

----------------------------------------------------------------------------
\* The page component (PDFProcessorPage).  page holds its state: files (the
\* number of files selected), processing, progress, processedData (a
\* sequence of length 0 for null, else the artifact) and error (likewise);
\* and, of the model, selection (the number of the file selection, counted
\* up by every change of it), running (the calls of processFiles in flight,
\* each with the selection it was started on, its total and the files done),
\* ended (the outcomes of the batches that ended, in order) and downloaded
\* (the artifacts handed to the browser).  An action of the user is enabled
\* when its control is rendered and not disabled.

MaxSelected == 2

MaxSelections == 3

MaxBatches == 3

MaxDownloads == 2

PleaseSelect == <<"P","o","r"," ","f","a","v","o","r",","," ","s","e","l","e","c","i","o","n","e"," ","p","e","l","o"," ","m","e","n","o","s"," ","u","m"," ","a","r","q","u","i","v","o"," ","P","D","F"," ","o","u"," ","E","x","c","e","l">>

ProcessingFailed == <<"A","n"," ","e","r","r","o","r"," ","o","c","c","u","r","r","e","d"," ","w","h","i","l","e"," ","p","r","o","c","e","s","s","i","n","g"," ","P","D","F","s">>

PageInit ==
    /\ NoProcessor
    /\ pdfjsLibPromise = "null"
    /\ loader = <<>>
    /\ store = <<>>
    /\ page = [files |-> 0, processing |-> FALSE, progress |-> 0, processedData |-> <<>>,
               error |-> <<>>, selection |-> 0, running |-> <<>>, ended |-> <<>>,
               downloaded |-> <<>>]

inputAlwaysEnabled(processing) == FALSE

\* <input ... disabled={processing} />
inputDisabled(processing) == processing

\* {!processedData ? (process and clear buttons) : (download and clear buttons)}
processShown(processedData) == processedData = <<>>

\* disabled={processing || files.length === 0}
processDisabled(processing, length) == processing \/ length = 0

\* {files.length > 0 && (<Button onClick={handleClear} disabled={processing} ...>)},
\* or the button beside the download button
clearEnabled(processedData, processing, length) ==
    IF processedData = <<>> THEN length > 0 /\ ~processing ELSE TRUE

\* handleFileChange: the dialog returns n files.
HandleFileChange(n) ==
    /\ ~inputDisabled(page.processing)
    /\ page.selection < MaxSelections
    /\ page' = [page EXCEPT !.files = n, !.error = <<>>, !.processedData = <<>>,
                            !.selection = @ + 1]
    /\ UNCHANGED <<processor, pdfjsLibPromise, loader, store>>

\* handleProcess, to its await: the message when no file is selected, else
\* the call of processFiles.
HandleProcess ==
    /\ processShown(page.processedData)
    /\ ~processDisabled(page.processing, page.files)
    /\ Len(page.ended) + Len(page.running) < MaxBatches
    /\ IF page.files = 0
       THEN page' = [page EXCEPT !.error = <<PleaseSelect>>]
       ELSE page' = [page EXCEPT !.processing = TRUE, !.error = <<>>, !.progress = 0,
                                 !.running = Append(@, [selection |-> page.selection,
                                                        total |-> page.files, current |-> 0])]
    /\ UNCHANGED <<processor, pdfjsLibPromise, loader, store>>

\* The progress callback of batch b: setProgress((current / total) * 100)
OnProgress(b) ==
    /\ b \in DOMAIN page.running
    /\ page.running[b].current < page.running[b].total
    /\ page' = [page EXCEPT !.running[b].current = @ + 1,
                            !.progress = ((page.running[b].current + 1) * 100)
                                             \div page.running[b].total]
    /\ UNCHANGED <<processor, pdfjsLibPromise, loader, store>>

\* The sequence without its element b
without(seq, b) == SubSeq(seq, 1, b - 1) \o SubSeq(seq, b + 1, Len(seq))

\* processFiles of batch b resolves: the try block and finally
BatchResolves(b) ==
    /\ b \in DOMAIN page.running
    /\ page.running[b].current = page.running[b].total
    /\ page' = [page EXCEPT !.processedData = <<[selection |-> page.running[b].selection]>>,
                            !.progress = 100, !.processing = FALSE,
                            !.running = without(@, b),
                            !.ended = Append(@, [selection |-> page.running[b].selection,
                                                 ok |-> TRUE])]
    /\ UNCHANGED <<processor, pdfjsLibPromise, loader, store>>

\* processFiles of batch b rejects: catch and finally
BatchRejects(b) ==
    /\ b \in DOMAIN page.running
    /\ page' = [page EXCEPT !.error = <<ProcessingFailed>>, !.processing = FALSE,
                            !.running = without(@, b),
                            !.ended = Append(@, [selection |-> page.running[b].selection,
                                                 ok |-> FALSE])]
    /\ UNCHANGED <<processor, pdfjsLibPromise, loader, store>>

\* handleDownload
HandleDownload ==
    /\ ~processShown(page.processedData)
    /\ Len(page.downloaded) < MaxDownloads
    /\ page' = [page EXCEPT !.downloaded = Append(@, page.processedData[1])]
    /\ UNCHANGED <<processor, pdfjsLibPromise, loader, store>>

\* handleClear
HandleClear ==
    /\ clearEnabled(page.processedData, page.processing, page.files)
    /\ page.selection < MaxSelections
    /\ page' = [page EXCEPT !.files = 0, !.processedData = <<>>, !.error = <<>>,
                            !.progress = 0, !.selection = @ + 1]
    /\ UNCHANGED <<processor, pdfjsLibPromise, loader, store>>

PageNext ==
    \/ \E n \in 0..MaxSelected : HandleFileChange(n)
    \/ HandleProcess
    \/ \E b \in 1..MaxBatches : OnProgress(b)
    \/ \E b \in 1..MaxBatches : BatchResolves(b)
    \/ \E b \in 1..MaxBatches : BatchRejects(b)
    \/ HandleDownload
    \/ HandleClear

PageSpec == PageInit /\ [][PageNext]_vars

\* At most one batch runs, and runs exactly while processing is true; an
\* artifact is held only when no batch runs, the batch that ended last
\* succeeded, and it was started on the file selection of now.
oneBatchOneArtifact ==
    /\ Len(page.running) <= 1
    /\ page.processing <=> page.running # <<>>
    /\ page.processedData # <<>> =>
          /\ page.running = <<>>
          /\ page.ended # <<>> /\ page.ended[Len(page.ended)].ok
          /\ page.ended[Len(page.ended)].selection = page.selection
          /\ page.processedData[1].selection = page.selection

\* A batch starts only while processing is false and no artifact is held; the
\* selection changes only while processing is false; a batch that ends
\* leaves processing false.
batchSteps ==
    /\ Len(page'.running) > Len(page.running) => (~page.processing /\ page.processedData = <<>>)
    /\ page'.selection # page.selection => ~page.processing
    /\ Len(page'.ended) > Len(page.ended) => ~page'.processing

\* C29: in the page component at most one batch runs at a time, processing
\* is false again when a batch ends, on success and on failure, and an
\* artifact is held only if the most recent batch succeeded and the file
\* selection has not changed or been cleared since.
C29_OneBatchOneArtifact == []oneBatchOneArtifact /\ [][batchSteps]_vars

\* An artifact of the third batch is held, after one batch failed and one
\* succeeded on an earlier selection.
C29_Witness ==
    /\ page.processedData # <<>>
    /\ Len(page.ended) = 3
    /\ ~page.ended[1].ok /\ page.ended[2].ok
    /\ page.ended[2].selection < page.selection
    /\ page.downloaded # <<>>

----------------------------------------------------------------------------
\* The data route (POST of src/app/api/data/route.ts).  store holds the
\* directory JSON_DIR (dir, a set of files: name, the filename and data of
\* the content, complete = FALSE while a writeFile on it is under way, when a
\* read of it does not parse) and the requests received, in order: the body,
\* the position of the handler (at), the names readdir returned (listing),
\* the file it writes (target), the file it found (existingFile, a sequence
\* of length 0 when none), whether it wrote, and its response.  The handler
\* of a request runs from one await to the next in one step.

MaxRequests == 3

Word == 256 * 256

\* charCodeAt of the characters of the contents hashed
charCode ==
    [c \in {"[", "]", "1", "2", "a", "b", ".", "p", "d", "f"} |->
        CASE c = "[" -> 91 [] c = "]" -> 93 [] c = "1" -> 49 [] c = "2" -> 50
          [] c = "a" -> 97 [] c = "b" -> 98 [] c = "." -> 46 [] c = "p" -> 112
          [] c = "d" -> 100 [] c = "f" -> 102]

\* A 32-bit integer as its two 16-bit halves
\* `hash = ((hash << 5) - hash) + char; hash = hash & hash`
hashStep(hash, char) ==
    [hi |-> (31 * hash.hi + (31 * hash.lo + char) \div Word) % Word,
     lo |-> (31 * hash.lo + char) % Word]

RECURSIVE hashFrom(_, _, _)
hashFrom(content, k, hash) ==
    IF k > Len(content) THEN hash
    ELSE hashFrom(content, k + 1, hashStep(hash, charCode[content[k]]))

\* Math.abs of the 32-bit integer of the halves
abs32(hash) ==
    IF hash.hi < Word \div 2 THEN hash
    ELSE [hi |-> (Word - 1 - hash.hi + (IF hash.lo = 0 THEN 1 ELSE 0)) % Word,
          lo |-> (Word - hash.lo) % Word]

hexDigit(d) == <<SubSeq(<<"0","1","2","3","4","5","6","7","8","9","a","b","c","d","e","f">>, d + 1, d + 1)[1]>>

\* Number.prototype.toString(16) of a number below 65536, without or with
\* leading zeros
RECURSIVE hex(_)
hex(n) == IF n < 16 THEN hexDigit(n) ELSE hex(n \div 16) \o hexDigit(n % 16)

hex4(n) ==
    hexDigit(n \div 4096) \o hexDigit((n \div 256) % 16) \o hexDigit((n \div 16) % 16)
    \o hexDigit(n % 16)

toHex(hash) == IF hash.hi = 0 THEN hex(hash.lo) ELSE hex(hash.hi) \o hex4(hash.lo)

\* generateFileHash
generateFileHash(content) == toHex(abs32(hashFrom(content, 1, [hi |-> 0, lo |-> 0])))

FilePrefix == <<"f","i","l","e","_">>

SummaryPrefix == <<"s","u","m","m","a","r","y","_">>

JsonSuffix == <<".","j","s","o","n">>

startsWithPrefix(str, prefix) == Len(str) >= Len(prefix) /\ SubSeq(str, 1, Len(prefix)) = prefix

endsWithSuffix(str, suffix) ==
    Len(str) >= Len(suffix) /\ SubSeq(str, Len(str) - Len(suffix) + 1, Len(str)) = suffix

\* The request bodies: type, filename, and data as its JSON text
Filenames == {<<"a",".","p","d","f">>, <<"b",".","p","d","f">>}

Datas == {<<"[","1","]">>, <<"[","2","]">>}

Types == {"file", "summary", "report"}

\* Date.now() as the text hashed with a summary
Clock == {<<"1">>, <<"2">>}

StoreInit ==
    /\ NoProcessor
    /\ pdfjsLibPromise = "null"
    /\ loader = <<>>
    /\ page = <<>>
    /\ store = [dir |-> {}, requests |-> <<>>]

requestAt(r, at) == r \in DOMAIN store.requests /\ store.requests[r].at = at

\* A stored file
StoredFile(name, filename, content, complete) ==
    [name |-> name, filename |-> filename, data |-> content, complete |-> complete]

\* fs.writeFile on target: the files of the directory with that of the name replaced
written(dir, stored) == {f \in dir : f.name # stored.name} \cup {stored}

\* POST received: ensureJsonDir and request.json() are done.
Post(type, filename, content) ==
    /\ Len(store.requests) < MaxRequests
    /\ store' = [store EXCEPT !.requests =
                    Append(@, [type |-> type, filename |-> filename, data |-> content,
                               at |-> "parsed", listing |-> {}, target |-> <<>>,
                               existingFile |-> <<>>, wrote |-> FALSE,
                               overlapped |-> \E k \in DOMAIN store.requests :
                                                  store.requests[k].at # "done",
                               response |-> <<>>])]
    /\ UNCHANGED <<processor, pdfjsLibPromise, loader, page>>

\* `const existingFiles = await fs.readdir(JSON_DIR)`
ReadDir(r) ==
    /\ requestAt(r, "parsed") /\ store.requests[r].type = "file"
    /\ store' = [store EXCEPT !.requests[r].at = "listed",
                             !.requests[r].listing = {f.name : f \in store.dir}]
    /\ UNCHANGED <<processor, pdfjsLibPromise, loader, page>>

\* The files of the listing that existingFiles.find accepts: a .json file
\* that is no summary, whose content parses and has the filename.
accepted(listing, dir, filename) ==
    {n \in listing :
        /\ endsWithSuffix(n, JsonSuffix) /\ ~startsWithPrefix(n, SummaryPrefix)
        /\ \E f \in dir : f.name = n /\ f.complete /\ f.filename = filename}

\* `existingFile || file_${fileData.id}.json`
targetFilename(existingFile, id) ==
    IF existingFile # <<>> THEN existingFile[1] ELSE FilePrefix \o id \o JsonSuffix

\* existingFiles.find(...), then fs.writeFile opens the target.
FindExisting(r) ==
    /\ requestAt(r, "listed")
    /\ \E existingFile \in
            IF accepted(store.requests[r].listing, store.dir, store.requests[r].filename) = {}
            THEN {<<>>}
            ELSE {<<n>> : n \in accepted(store.requests[r].listing, store.dir,
                                         store.requests[r].filename)} :
          store' = [store EXCEPT
              !.requests[r].at = "writing",
              !.requests[r].existingFile = existingFile,
              !.requests[r].target =
                  targetFilename(existingFile,
                                 generateFileHash(store.requests[r].data
                                                      \o store.requests[r].filename)),
              !.dir = written(@, StoredFile(
                          targetFilename(existingFile,
                                         generateFileHash(store.requests[r].data
                                                              \o store.requests[r].filename)),
                          store.requests[r].filename, store.requests[r].data, FALSE))]
    /\ UNCHANGED <<processor, pdfjsLibPromise, loader, page>>

\* fs.writeFile is done: the response with isNew.
WriteFile(r) ==
    /\ requestAt(r, "writing")
    /\ store' = [store EXCEPT
          !.requests[r].at = "done",
          !.requests[r].wrote = TRUE,
          !.requests[r].response =
              <<[status |-> 200,
                 id |-> generateFileHash(store.requests[r].data \o store.requests[r].filename),
                 isNew |-> store.requests[r].existingFile = <<>>]>>,
          !.dir = written(@, StoredFile(store.requests[r].target, store.requests[r].filename,
                                        store.requests[r].data, TRUE))]
    /\ UNCHANGED <<processor, pdfjsLibPromise, loader, page>>

\* type === 'summary': the summary file of the hash of the data and the time
WriteSummary(r) ==
    /\ requestAt(r, "parsed") /\ store.requests[r].type = "summary"
    /\ \E now \in Clock :
          store' = [store EXCEPT
              !.requests[r].at = "done",
              !.requests[r].wrote = TRUE,
              !.requests[r].response =
                  <<[status |-> 200, id |-> generateFileHash(store.requests[r].data \o now),
                     isNew |-> FALSE]>>,
              !.dir = written(@, StoredFile(
                          SummaryPrefix \o generateFileHash(store.requests[r].data \o now)
                              \o JsonSuffix,
                          <<>>, store.requests[r].data, TRUE))]
    /\ UNCHANGED <<processor, pdfjsLibPromise, loader, page>>

\* Any other type: { error: 'Invalid type' }, status 400
InvalidType(r) ==
    /\ requestAt(r, "parsed") /\ store.requests[r].type \notin {"file", "summary"}
    /\ store' = [store EXCEPT
          !.requests[r].at = "done",
          !.requests[r].response = <<[status |-> 400, id |-> <<>>, isNew |-> FALSE]>>]
    /\ UNCHANGED <<processor, pdfjsLibPromise, loader, page>>

StoreNext ==
    \/ \E type \in Types, filename \in Filenames, content \in Datas : Post(type, filename, content)
    \/ \E r \in 1..MaxRequests : ReadDir(r)
    \/ \E r \in 1..MaxRequests : FindExisting(r)
    \/ \E r \in 1..MaxRequests : WriteFile(r)
    \/ \E r \in 1..MaxRequests : WriteSummary(r)
    \/ \E r \in 1..MaxRequests : InvalidType(r)

StoreSpec == StoreInit /\ [][StoreNext]_vars

\* The stored files that are no summaries
nonSummary(dir) == {f \in dir : ~startsWithPrefix(f.name, SummaryPrefix)}

oneFilePerFilename(dir) ==
    \A f, g \in nonSummary(dir) : f.filename = g.filename => f.name = g.name

\* The responses: 400 and nothing written for a type that is neither 'file'
\* nor 'summary'; isNew false exactly for a 'file' request that found its
\* filename stored.
responsesAsStated(requests) ==
    \A r \in DOMAIN requests :
        requests[r].at = "done" =>
            /\ requests[r].type \notin {"file", "summary"} =>
                  (requests[r].response[1].status = 400 /\ ~requests[r].wrote)
            /\ requests[r].type = "file" =>
                  (requests[r].response[1].isNew <=> requests[r].existingFile = <<>>)

\* C30: after any sequence or interleaving of POST requests the directory
\* holds at most one file that is no summary per stored filename, and a
\* request of a type other than 'file' and 'summary' gets status 400 and
\* writes nothing.
C30_OneFilePerFilename ==
    /\ oneFilePerFilename(store.dir)
    /\ responsesAsStated(store.requests)

\* The same of the requests handled one after the other
C30_OneFilePerFilenameInSequence ==
    (\A r \in DOMAIN store.requests : ~store.requests[r].overlapped) =>
        /\ oneFilePerFilename(store.dir)
        /\ responsesAsStated(store.requests)

\* Two requests for 'a.pdf' that overlapped both reported a new file, and
\* the directory holds two files of that filename.
C30_TwoFilesOfOneFilename ==
    /\ Len(store.requests) = 2
    /\ \A r \in 1..2 :
          /\ store.requests[r].at = "done" /\ store.requests[r].type = "file"
          /\ store.requests[r].filename = <<"a",".","p","d","f">>
          /\ store.requests[r].response[1].isNew
    /\ Cardinality(nonSummary(store.dir)) = 2

====
